---- MODULE Spec2Model ----
(***************************************************************************)
(* Wallet portfolio aggregation and price resolution of blockpal-server.   *)
(*                                                                         *)
(* MoralisService (services/moralis/index.js, enhanced version) with its   *)
(* two NodeCache instances, and the GET /api/tokens/wallet/:address route.  *)
(* JavaScript numbers are exact rationals, so "value = balance * price"    *)
(* and "price = value / balance" are checked without rounding.             *)
(***************************************************************************)
EXTENDS Integers, Sequences, FiniteSets, TLC

(***************************************************************************)
(* JavaScript values: null/undefined, NaN, and numbers n/d with d > 0.     *)
(***************************************************************************)
Null == [k |-> "null", n |-> 0, d |-> 1]
NaN == [k |-> "nan", n |-> 0, d |-> 1]

Abs(x) == IF x < 0 THEN -x ELSE x

GCD[a \in Nat, b \in Nat] == IF b = 0 THEN a ELSE GCD[b, a % b]

\* the number n/d in lowest terms with a positive denominator
Normalized[n \in Int, d \in Int] ==
  LET g == GCD[Abs(n), Abs(d)]
      s == IF d < 0 THEN -1 ELSE 1
  IN [k |-> "num", n |-> (s * n) \div g, d |-> Abs(d) \div g]

Num(n, d) == Normalized[n, d]

Zero == Num(0, 1)

\* ToNumber: null coerces to 0 in arithmetic and comparisons
ToNum(v) == IF v.k = "null" THEN Zero ELSE v

\* a < b (false as soon as one side is NaN)
Lt(a, b) ==
  LET x == ToNum(a)
      y == ToNum(b)
  IN x.k = "num" /\ y.k = "num" /\ x.n * y.d < y.n * x.d

\* a / b for numbers, b # 0
Div(a, b) == Num(a.n * b.d, a.d * b.n)

\* a * b
Mul(a, b) ==
  LET x == ToNum(a)
      y == ToNum(b)
  IN IF x.k = "num" /\ y.k = "num" THEN Num(x.n * y.n, x.d * y.d) ELSE NaN

\* a + b
Add(a, b) ==
  LET x == ToNum(a)
      y == ToNum(b)
  IN IF x.k = "num" /\ y.k = "num"
     THEN Num(x.n * y.d + y.n * x.d, x.d * y.d)
     ELSE NaN

\* JavaScript truthiness of a number-or-null value
Truthy(v) == v.k = "num" /\ v.n # 0

(***************************************************************************)
(* Price resolver: constants of MoralisService                             *)
(***************************************************************************)
\* the reasonable-price ceiling of getTokenPrice
MaxUsablePrice == 1000000

\* representative symbols: ETH is a key of fallbackPrices and of the fetched
\* priceMap, BUSD is a key of fallbackPrices only, XYZ of neither
Symbols == {"ETH", "BUSD", "XYZ"}

\* this.fallbackPrices (an absent key reads as undefined)
fallbackPrices ==
  [s \in Symbols |->
     CASE s = "ETH" -> Num(3200, 1)
       [] s = "BUSD" -> Num(1, 1)
       [] OTHER -> Null]

\* usable = 0 < price < 1_000_000
Usable(v) == v.k = "num" /\ Lt(Zero, v) /\ Lt(v, Num(MaxUsablePrice, 1))


(***************************************************************************)
(* getTokenPrice: the tiers it evaluates before its first await            *)
(***************************************************************************)
\* 1. Moralis price if available and reasonable
Tier1(moralisPrice) ==
  IF Truthy(moralisPrice) /\ Lt(Zero, moralisPrice)
     /\ Lt(moralisPrice, Num(MaxUsablePrice, 1))
  THEN moralisPrice
  ELSE Null

\* fault variant of Tier2: the quotient taken the wrong way round
Tier2Inverted(moralisValue, balance) ==
  IF Truthy(moralisValue) /\ Truthy(balance) /\ Lt(Zero, moralisValue)
     /\ Lt(Zero, balance)
  THEN LET calculatedPrice == Div(balance, moralisValue)
       IN IF Lt(Zero, calculatedPrice)
             /\ Lt(calculatedPrice, Num(MaxUsablePrice, 1))
          THEN calculatedPrice
          ELSE Null
  ELSE Null

\* 2. Moralis value / balance
Tier2(moralisValue, balance) ==
  IF Truthy(moralisValue) /\ Truthy(balance) /\ Lt(Zero, moralisValue)
     /\ Lt(Zero, balance)
  THEN LET calculatedPrice == Div(moralisValue, balance)
       IN IF Lt(Zero, calculatedPrice)
             /\ Lt(calculatedPrice, Num(MaxUsablePrice, 1))
          THEN calculatedPrice
          ELSE Null
  ELSE Null

\* 3. priceCache.get("token_prices")[symbol]; cachedPrices is the cache entry:
\* cached = FALSE is a miss (never set, expired or flushed)
Tier3(symbol, cachedPrices) ==
  IF cachedPrices.cached /\ Truthy(cachedPrices.map[symbol])
  THEN cachedPrices.map[symbol]
  ELSE Null

\* fault variant of Tier4: the static table is never consulted
Tier4Skipped(symbol) == Null

\* 4. this.fallbackPrices[symbol]
Tier4(symbol) ==
  IF Truthy(fallbackPrices[symbol]) THEN fallbackPrices[symbol] ELSE Null

\* fault variant of LocalTiers: value / balance tried before the quoted price
DerivedFirst(symbol, moralisPrice, moralisValue, balance, cachedPrices) ==
  IF Tier2(moralisValue, balance) # Null
  THEN [tier |-> 2, price |-> Tier2(moralisValue, balance)]
  ELSE IF Tier1(moralisPrice) # Null
  THEN [tier |-> 1, price |-> Tier1(moralisPrice)]
  ELSE IF Tier3(symbol, cachedPrices) # Null
  THEN [tier |-> 3, price |-> Tier3(symbol, cachedPrices)]
  ELSE IF Tier4(symbol) # Null
  THEN [tier |-> 4, price |-> Tier4(symbol)]
  ELSE [tier |-> 5, price |-> Null]

\* fault variant of LocalTiers: the static table tried before the cached table
ConstantsFirst(symbol, moralisPrice, moralisValue, balance, cachedPrices) ==
  IF Tier1(moralisPrice) # Null
  THEN [tier |-> 1, price |-> Tier1(moralisPrice)]
  ELSE IF Tier2(moralisValue, balance) # Null
  THEN [tier |-> 2, price |-> Tier2(moralisValue, balance)]
  ELSE IF Tier4(symbol) # Null
  THEN [tier |-> 4, price |-> Tier4(symbol)]
  ELSE IF Tier3(symbol, cachedPrices) # Null
  THEN [tier |-> 3, price |-> Tier3(symbol, cachedPrices)]
  ELSE [tier |-> 5, price |-> Null]

\* the first tier of 1-4 that returns; tier 5 when none does
LocalTiers(symbol, moralisPrice, moralisValue, balance, cachedPrices) ==
  IF Tier1(moralisPrice) # Null
  THEN [tier |-> 1, price |-> Tier1(moralisPrice)]
  ELSE IF Tier2(moralisValue, balance) # Null
  THEN [tier |-> 2, price |-> Tier2(moralisValue, balance)]
  ELSE IF Tier3(symbol, cachedPrices) # Null
  THEN [tier |-> 3, price |-> Tier3(symbol, cachedPrices)]
  ELSE IF Tier4(symbol) # Null
  THEN [tier |-> 4, price |-> Tier4(symbol)]
  ELSE [tier |-> 5, price |-> Null]

(***************************************************************************)
(* fetchLiveTokenPrice and the tail of getTokenPrice                       *)
(***************************************************************************)
\* fault variant of LiveCacheHit: the cached on-demand price is never read
LiveCacheIgnored(symbol, live) == Null

\* const cached = priceCache.get(`live_price_${symbol}`); if (cached) return cached
LiveCacheHit(symbol, live) ==
  IF Truthy(live[symbol]) THEN live[symbol] ELSE Null

\* if (price && price > 0) { priceCache.set(...); return price }
LiveAccept(price) == Truthy(price) /\ Lt(Zero, price)

\* the catch of fetchLiveTokenPrice: the error is absorbed, null is returned
FetchLiveCatch == [threw |-> FALSE, value |-> Null]

\* fault variant of FinalFromLive: whatever the lookup answered is returned
LivePassedThrough(livePrice) == livePrice

\* 5./6. if (livePrice && livePrice > 0) return livePrice; return 0
FinalFromLive(livePrice) ==
  IF Truthy(livePrice) /\ Lt(Zero, livePrice) THEN livePrice ELSE Zero

\* the catch of getTokenPrice
GetTokenPriceCatch(symbol) ==
  IF Truthy(fallbackPrices[symbol]) THEN fallbackPrices[symbol] ELSE Zero


(***************************************************************************)
(* State                                                                   *)
(***************************************************************************)
VARIABLES
  tokenPrices,  \* priceCache entry "token_prices": [cached, map]
  livePrices,   \* priceCache entries live_price_<symbol> (Null = no entry)
  call,         \* per request: where it is suspended and what it holds
  last,         \* observer: the getTokenPrice call that returned last
  memo,         \* observer: a returned call whose cache state is still current
  rep,          \* observer: a later call with memo's arguments, with both results
  observe,      \* which observer records: "call" (last), "pair" (memo, rep), "none"
  enableCache,  \* process.env.ENABLE_CACHE is not "false"
  apiKey,       \* this.apiKey is set (MORALIS_API_KEY)
  initialized,  \* this.initialized
  updaters,     \* setInterval timers startPriceUpdater has created
  stale,        \* observer: requests that held a provider response when their
                \* wallet was cleared, and the keys such requests have written
  walletCache,  \* cache entries wallet_tokens_<wallet>_<chain>: [cached, tokens]
  req,          \* per request: where getWalletTokenBalances is and what it holds
  response,     \* the last answer of GET /api/tokens/wallet/:address
  routeReq,     \* the GET /wallet/:address request in flight
  connectedWallets, \* WalletController: Map walletId -> walletData
  walletSessions    \* WalletController: Map sessionId -> walletId

priceVars == <<tokenPrices, livePrices, call, last, memo, rep, observe>>

restVars == <<apiKey, enableCache, connectedWallets, walletSessions, updaters, stale, initialized, walletCache, req, response, routeReq>>

vars == <<tokenPrices, livePrices, call, last, memo, rep, observe,
          apiKey, enableCache, connectedWallets, walletSessions, updaters,
          stale, initialized, walletCache, req, response, routeReq>>

\* a Map without entries
EmptyMap == [key \in {} |-> {}]

\* the requests in flight at once
Procs == {"r1"}

NoPrices == [cached |-> FALSE, map |-> [s \in Symbols |-> Null]]

Idle ==
  [pc |-> "idle", kind |-> "none", sym |-> "", mp |-> Null, mv |-> Null,
   bal |-> Null, tableAt |-> Null, liveAt |-> Null, local |-> FALSE,
   net |-> 0, dirty |-> FALSE]

NoCall ==
  [k |-> "none", sym |-> "", mp |-> Null, mv |-> Null, bal |-> Null,
   tableAt |-> Null, liveAt |-> Null, result |-> Null, net |-> 0,
   threw |-> FALSE]

NoMemo ==
  [k |-> "none", sym |-> "", mp |-> Null, mv |-> Null, bal |-> Null,
   local |-> FALSE, result |-> Null]

NoRep ==
  [k |-> "none", sym |-> "", local |-> FALSE, first |-> Null, second |-> Null]

\* what the price cache holds for the symbol when a call starts
TableAt(symbol) ==
  IF tokenPrices.cached THEN tokenPrices.map[symbol] ELSE Null

\* the call can be answered from its arguments and the price cache alone
LocallyResolvable(symbol, moralisPrice, moralisValue, balance) ==
  \/ Usable(moralisPrice)
  \/ moralisValue.k = "num" /\ balance.k = "num" /\ Lt(Zero, moralisValue)
     /\ Lt(Zero, balance) /\ Usable(Div(moralisValue, balance))
  \/ Truthy(TableAt(symbol))
  \/ Truthy(fallbackPrices[symbol])
  \/ Truthy(livePrices[symbol])

\* the price cache changes: calls in flight no longer run in the state they
\* started in, and memo no longer describes the current state
Touched(c) == [p \in DOMAIN c |-> IF c[p].pc = "idle" THEN c[p] ELSE [c[p] EXCEPT !.dirty = TRUE]]

\* memo records a call with the arguments of c
SameArgs(m, c) ==
  m.k = "call" /\ m.sym = c.sym /\ m.mp = c.mp /\ m.mv = c.mv /\ m.bal = c.bal

\* getTokenPrice returns `result` to its caller. The observers describe the
\* current price-cache state only: they are dropped when the cache changes
\* later, and memo also when a call with other arguments starts.
Observed(c, result, threw, cacheChanged) ==
  IF observe = "call"
  THEN /\ last' = [k |-> "call", sym |-> c.sym, mp |-> c.mp, mv |-> c.mv,
                   bal |-> c.bal, tableAt |-> c.tableAt, liveAt |-> c.liveAt,
                   result |-> result, net |-> c.net, threw |-> threw]
       /\ UNCHANGED <<memo, rep>>
  ELSE IF observe = "none"
  THEN UNCHANGED <<last, memo, rep>>
  ELSE /\ UNCHANGED last
       /\ rep' = IF SameArgs(memo, c) /\ ~c.dirty
                 THEN [k |-> "pair", sym |-> c.sym, local |-> c.local,
                       first |-> memo.result, second |-> result]
                 ELSE NoRep
       /\ memo' = IF cacheChanged \/ c.dirty THEN NoMemo
                  ELSE IF SameArgs(memo, c) THEN memo
                  ELSE [k |-> "call", sym |-> c.sym, mp |-> c.mp, mv |-> c.mv,
                        bal |-> c.bal, local |-> c.local, result |-> result]

\* a call with these arguments starts: memo is kept only for a repetition
Started(c) ==
  /\ last' = NoCall
  /\ rep' = NoRep
  /\ memo' = IF SameArgs(memo, c) THEN memo ELSE NoMemo

\* the price cache becomes <<newTable, newLive>> outside any getTokenPrice return
CacheStep(newTable, newLive) ==
  LET changed == newTable # tokenPrices \/ newLive # livePrices
  IN /\ tokenPrices' = newTable
     /\ livePrices' = newLive
     /\ call' = IF changed THEN Touched(call) ELSE call
     /\ last' = IF changed THEN NoCall ELSE last
     /\ memo' = IF changed THEN NoMemo ELSE memo
     /\ rep' = IF changed THEN NoRep ELSE rep
     /\ UNCHANGED observe

(***************************************************************************)
(* Inputs of the price resolver                                            *)
(***************************************************************************)
Args(moralisPrice, moralisValue, balance) ==
  [mp |-> moralisPrice, mv |-> moralisValue, bal |-> balance]

\* (usd_price, usd_value, balance) handed to getTokenPrice: a usable quote with
\* a disagreeing value, a quote at the ceiling, no quote, an unparsable quote
\* with a quotient above the ceiling, a quotient at the ceiling, all zero, the
\* defaults of a call by symbol alone, and a value without a balance
PriceArgs ==
  { Args(Num(2, 1), Num(5, 1), Num(2, 1)),
    Args(Num(MaxUsablePrice, 1), Num(5, 1), Num(2, 1)),
    Args(Null, Num(5, 1), Num(2, 1)),
    Args(NaN, Num(3000000, 1), Num(2, 1)),
    Args(Zero, Num(3000000, 1), Num(3, 1)),
    Args(Zero, Zero, Num(2, 1)),
    Args(Null, Null, Zero),
    Args(Null, Num(5, 1), Zero) }

\* ethereum.usd in a simple/price answer to updateTokenPrices (Null: absent)
TableUsd == {Null, Num(3000, 1), Num(2000000, 1), Num(-5, 1)}

\* <id>.usd in the simple/price answer to fetchLiveTokenPrice (Null: absent)
LiveUsd == {Null, Num(7, 1), Num(2000000, 1)}

(***************************************************************************)
(* The price table refresh and cache expiry                                *)
(***************************************************************************)
\* priceMap of updateTokenPrices: every key reads response.data.<id>?.usd ||
\* this.fallbackPrices.<KEY>; BUSD is no key of priceMap
PriceMap(usd) ==
  [s \in Symbols |->
     IF s = "ETH"
     THEN IF Truthy(usd) THEN usd ELSE fallbackPrices["ETH"]
     ELSE Null]

\* the token_prices entry left by a refresh that writes its prices into the
\* cached table key by key and keeps the other keys
RefreshedInPlace(outcome, usd) ==
  CASE outcome = "data" ->
         [cached |-> TRUE,
          map |-> [s \in Symbols |->
                     IF PriceMap(usd)[s] # Null THEN PriceMap(usd)[s]
                     ELSE tokenPrices.map[s]]]
    [] outcome = "error" -> [cached |-> TRUE, map |-> fallbackPrices]
    [] OTHER -> tokenPrices

\* the token_prices entry updateTokenPrices leaves: "data" answers with
\* ethereum.usd = usd, "nodata" answers without a body, "error" is a failed or
\* timed-out request
RefreshedTable(outcome, usd) ==
  CASE outcome = "data" -> [cached |-> TRUE, map |-> PriceMap(usd)]
    [] outcome = "error" -> [cached |-> TRUE, map |-> fallbackPrices]
    [] OTHER -> tokenPrices

\* updateTokenPrices run by the interval timer
UpdateTokenPrices(outcome, usd) ==
  /\ outcome \in {"data", "nodata", "error"}
  /\ CacheStep(RefreshedTable(outcome, usd), livePrices)
  /\ UNCHANGED restVars

\* the token_prices entry outlives its TTL (stdTTL 180 s)
ExpireTokenPrices ==
  /\ tokenPrices.cached
  /\ CacheStep(NoPrices, livePrices)
  /\ UNCHANGED restVars

\* a live_price_<symbol> entry outlives its TTL (300 s)
ExpireLivePrice(symbol) ==
  /\ livePrices[symbol] # Null
  /\ CacheStep(tokenPrices, [livePrices EXCEPT ![symbol] = Null])
  /\ UNCHANGED restVars

(***************************************************************************)
(* Provider records and processed tokens (processTokenBalancesEnhanced)    *)
(***************************************************************************)
\* config/chains: the chains of chainConfig and the popular token addresses of
\* chain 1
SupportedChains == {1, 137}

PopularAddresses == {"0xaaa"}

ChainSymbol == "ETH"

\* the native sentinel address as the code spells it
NativeSentinel == "0xEeeeeEeeeEeEeeEeEeEeeEEEeeeeEeeeeeeeEEeE"

\* a record of Moralis getWalletTokenBalancesPrice. balance_formatted is the
\* number its string parses to (Null: no string); balance is the raw amount
\* (Null: absent); decimals is parseInt(token.decimals), NoDecimals when the
\* record has no decimals (parseInt gives NaN)
RawToken(symbol, address, native, formatted, raw, decimals, usdPrice, usdValue, spam) ==
  [symbol |-> symbol, token_address |-> address, native_token |-> native,
   balance_formatted |-> formatted, balance |-> raw, decimals |-> decimals,
   usd_price |-> usdPrice, usd_value |-> usdValue, possible_spam |-> spam]

DefaultDecimals == 18

\* token.decimals of a record without decimals
NoDecimals == -1

\* a / Math.pow(10, e), digit by digit
RECURSIVE DivPow10(_, _)
DivPow10(a, e) ==
  IF e = 0 THEN a
  ELSE IF a.n % 10 = 0 THEN DivPow10(Num(a.n \div 10, a.d), e - 1)
  ELSE DivPow10(Num(a.n, a.d * 10), e - 1)

\* String.prototype.toLowerCase on the addresses of the model
ToLowerCase(a) ==
  CASE a = "0xAAA" -> "0xaaa"
    [] a = "0xW" -> "0xw"
    [] a = NativeSentinel -> "0xeeeeeeeeeeeeeeeeeeeeeeeeeeeeeeeeeeeeeeee"
    [] a = "0xEEEEEEEEEEEEEEEEEEEEEEEEEEEEEEEEEEEEEEEE" ->
         "0xeeeeeeeeeeeeeeeeeeeeeeeeeeeeeeeeeeeeeeee"
    [] OTHER -> a

\* let balance = 0; if (token.balance_formatted) ... else if (token.balance) ...
ParseBalance(token) ==
  IF token.balance_formatted # Null
  THEN token.balance_formatted
  ELSE IF token.balance # Null
  THEN LET decimals == IF token.decimals \notin {0, NoDecimals}
                       THEN token.decimals
                       ELSE DefaultDecimals
       IN DivPow10(token.balance, decimals)
  ELSE Zero

\* if (balance <= 0) continue   (false for NaN)
SkippedBalance(balance) == balance.k = "num" /\ balance.n <= 0

\* token.usd_price ? parseFloat(token.usd_price) : null
ParseQuote(v) == IF Truthy(v) THEN v ELSE Null

IsNativeToken(token) ==
  \/ token.native_token
  \/ token.token_address = NativeSentinel
  \/ token.token_address = ""

\* the processed token of a request in which a price that is not resolved
\* takes the prices of all tokens with it
ProcessedAtZero(token, balance, price, tier) ==
  [id |-> IF token.token_address = "" THEN "native"
          ELSE ToLowerCase(token.token_address),
   symbol |-> token.symbol,
   balance |-> balance,
   price |-> Zero,
   value |-> Zero,
   isNative |-> token.native_token,
   isPopular |-> token.native_token,
   tier |-> tier]

\* the processed token pushed for a raw record; tier is an observer field: the
\* tier of getTokenPrice that returned (6: the final return 0)
ProcessedToken(token, balance, price, tier) ==
  LET native == IsNativeToken(token)
      address == ToLowerCase(token.token_address)
  IN [id |-> IF native THEN "native" ELSE address,
      symbol |-> IF token.symbol # "" THEN token.symbol
                 ELSE IF native THEN ChainSymbol ELSE "UNKNOWN",
      balance |-> balance,
      price |-> price,
      value |-> Mul(balance, price),
      isNative |-> native,
      isPopular |-> native \/ address \in PopularAddresses,
      tier |-> tier]

\* getTokenPrice for a record answers without a request: a tier of 1-4
\* returns, or fetchLiveTokenPrice finds its cache entry
PricedLocally(token, table, live) ==
  LET balance == ParseBalance(token)
      t == LocalTiers(token.symbol, ParseQuote(token.usd_price),
                      ParseQuote(token.usd_value), balance, table)
  IN t.tier < 5 \/ LiveCacheHit(token.symbol, live) # Null

\* the token pushed for a record that PricedLocally
LocalToken(token, table, live) ==
  LET balance == ParseBalance(token)
      t == LocalTiers(token.symbol, ParseQuote(token.usd_price),
                      ParseQuote(token.usd_value), balance, table)
  IN IF t.tier < 5
     THEN ProcessedToken(token, balance, t.price, t.tier)
     ELSE ProcessedToken(token, balance,
                         FinalFromLive(LiveCacheHit(token.symbol, live)), 5)

\* the record passes `if (balance <= 0) continue`
Kept(token) == ~SkippedBalance(ParseBalance(token))

\* what the loop body leaves for a record it does not push
Skip == [id |-> "skipped"]

\* what the loop body leaves for a record whose getTokenPrice has to await
Wait == [id |-> "awaits"]

\* one pass of the loop body as far as it runs without awaiting: the record is
\* skipped by its balance, or its getTokenPrice has to await a request, or its
\* token is pushed
LoopBody(token, table, live) ==
  IF ~Kept(token) THEN Skip
  ELSE IF ~PricedLocally(token, table, live) THEN Wait
  ELSE LocalToken(token, table, live)

\* the loop over records whose passes are `passes`, up to the first one that
\* has to await, or to the end: the tokens before it are pushed in order
LoopUpTo(rest, acc, passes) ==
  LET waits == {i \in 1..Len(passes) : passes[i] = Wait}
      stop == IF waits = {} THEN Len(passes) + 1
              ELSE CHOOSE i \in waits : \A j \in waits : i <= j
      pushed == SelectSeq(SubSeq(passes, 1, stop - 1), LAMBDA t : t # Skip)
  IN IF waits = {}
     THEN [k |-> "finished", rest |-> <<>>, acc |-> acc \o pushed]
     ELSE [k |-> "lookup", rest |-> SubSeq(rest, stop, Len(rest)),
           acc |-> acc \o pushed]

\* the for loop of processTokenBalancesEnhanced from record `rest` on, up to
\* the first getTokenPrice that has to await a request, or to the end
PriceLoop(rest, acc, table, live) ==
  CHOOSE l \in { LoopUpTo(rest, acc, passes) :
                   passes \in {[i \in 1..Len(rest) |->
                                  LoopBody(rest[i], table, live)]} } : TRUE

\* Array.prototype.sort((a, b) => b.value - a.value): stable, value descending;
\* a token goes behind those of greater value and those of equal value that
\* stood before it
SortByValue(s) ==
  LET n == Len(s)
      pos(i) == 1 + Cardinality({j \in 1..n :
                       \/ Lt(s[i].value, s[j].value)
                       \/ ~Lt(s[j].value, s[i].value) /\ j < i})
  IN [k \in 1..n |-> s[CHOOSE i \in 1..n : pos(i) = k]]

(***************************************************************************)
(* getWalletTokenBalances                                                  *)
(***************************************************************************)
Wallets == {"0xw"}

ChainIds == {1, 999}

\* the wallets and chains that may have a wallet_tokens entry: those requested
\* here, a second wallet, and every chain of chainConfig
AllWallets == Wallets \cup {"0xv"}

\* req.params.address as requests spell the wallet 0xw: the hex digits in
\* lower case or in upper case
Spellings == {"0xw", "0xW"}

CacheKeys == (AllWallets \cup Spellings) \X (SupportedChains \cup ChainIds)

NoEntry == [cached |-> FALSE, tokens |-> <<>>]

NoOut == [k |-> "none", tokens |-> <<>>]

NoResponse == [k |-> "none"]

\* no GET /wallet/:address request in flight
RouteIdle == [pc |-> "idle"]

\* fault variant of Caught: the error leaves getWalletTokenBalances
Rethrown == [k |-> "thrown", tokens |-> <<>>]

\* the catch of getWalletTokenBalances: return []
Caught == [k |-> "caught", tokens |-> <<>>]

ReqIdle ==
  [pc |-> "idle", wallet |-> "", chain |-> 0, raw |-> <<>>, rest |-> <<>>,
   acc |-> <<>>, out |-> NoOut]

NoStale == [reqs |-> {}, keys |-> {}]

\* the observer after a step of request p (observe = "stale"): a request that
\* wrote the entry of its key puts the key among the stale ones if it held
\* its response when the wallet was cleared, and takes it out otherwise
StaleStep(p) ==
  stale' =
    IF observe # "stale" THEN stale
    ELSE IF req'[p].pc = "done" /\ req'[p].out.k = "snapshot"
    THEN [reqs |-> stale.reqs \ {p},
          keys |-> IF p \in stale.reqs
                   THEN stale.keys \cup {<<req'[p].wallet, req'[p].chain>>}
                   ELSE stale.keys \ {<<req'[p].wallet, req'[p].chain>>}]
    ELSE stale

\* the observer after clearWalletCache(walletAddress)
StaleCleared(walletAddress) ==
  stale' =
    IF observe # "stale" THEN stale
    ELSE [reqs |-> stale.reqs \cup
                     {p \in DOMAIN req : /\ req[p].pc = "pricing"
                                          /\ req[p].wallet = walletAddress},
          keys |-> {key \in stale.keys : key[1] # walletAddress}]

\* getWalletTokenBalances answering after `await this.initialize()` with what
\* the cache slot of the key holds, expired or not
AfterInitializeStale(r) ==
  [r EXCEPT !.pc = "done",
            !.out = [k |-> "cached",
                     tokens |-> walletCache[<<r.wallet, r.chain>>].tokens]]

\* getWalletTokenBalances going on after `await this.initialize()` without a
\* look at the cache
AfterInitializeUncached(r) ==
  IF r.chain \notin SupportedChains
  THEN [r EXCEPT !.pc = "done", !.out = Caught]
  ELSE [r EXCEPT !.pc = "prices"]

\* getWalletTokenBalances after `await this.initialize()`: the cache check and
\* the chain check, up to the await of updateTokenPrices
AfterInitialize(r) ==
  LET entry == walletCache[<<r.wallet, r.chain>>]
  IN IF entry.cached /\ enableCache
     THEN [r EXCEPT !.pc = "done",
                    !.out = [k |-> "cached", tokens |-> entry.tokens]]
     ELSE IF r.chain \notin SupportedChains
     THEN [r EXCEPT !.pc = "done", !.out = Caught]
     ELSE [r EXCEPT !.pc = "prices"]

\* a pass that ends by adding its tokens to the entry of the key in place
ContinueAppending(p, r, live, callBase) ==
  \E l \in {PriceLoop(r.rest, r.acc, tokenPrices, live)} :
    IF l.k = "finished"
    THEN \E tokens \in {SortByValue(l.acc)} :
           /\ walletCache' = [walletCache EXCEPT ![<<r.wallet, r.chain>>] =
                                [cached |-> TRUE, tokens |-> @.tokens \o tokens]]
           /\ req' = [req EXCEPT ![p] =
                        [r EXCEPT !.pc = "done", !.rest = <<>>, !.acc = <<>>,
                                  !.out = [k |-> "snapshot", tokens |-> tokens]]]
           /\ call' = [callBase EXCEPT ![p] = Idle]
    ELSE /\ req' = [req EXCEPT ![p] =
                      [r EXCEPT !.pc = "pricing", !.rest = l.rest,
                                !.acc = l.acc]]
         /\ call' = [callBase EXCEPT ![p] =
                       [Idle EXCEPT !.pc = "search", !.kind = "wallet",
                                    !.sym = Head(l.rest).symbol]]
         /\ UNCHANGED walletCache

\* processTokenBalancesEnhanced runs for request r from r.rest on, with the
\* live prices `live`; callBase is `call` as the step leaves the other requests.
\* It ends in the sort, cache.set and the return, or suspended in a lookup.
\* (l and tokens are bound by \E so that they are computed once.)
Continue(p, r, live, callBase) ==
  \E l \in {PriceLoop(r.rest, r.acc, tokenPrices, live)} :
    IF l.k = "finished"
    THEN \E tokens \in {SortByValue(l.acc)} :
           /\ walletCache' = [walletCache EXCEPT ![<<r.wallet, r.chain>>] =
                                [cached |-> TRUE, tokens |-> tokens]]
           /\ req' = [req EXCEPT ![p] =
                        [r EXCEPT !.pc = "done", !.rest = <<>>, !.acc = <<>>,
                                  !.out = [k |-> "snapshot", tokens |-> tokens]]]
           /\ call' = [callBase EXCEPT ![p] = Idle]
    ELSE /\ req' = [req EXCEPT ![p] =
                      [r EXCEPT !.pc = "pricing", !.rest = l.rest,
                                !.acc = l.acc]]
         /\ call' = [callBase EXCEPT ![p] =
                       [Idle EXCEPT !.pc = "search", !.kind = "wallet",
                                    !.sym = Head(l.rest).symbol]]
         /\ UNCHANGED walletCache

\* fetchLiveTokenPrice hands lv back to the getTokenPrice awaited by the loop
\* of request p: the token is pushed and the loop goes on
WalletPriceReturns(p, c, lv, newLive) ==
  LET r == req[p]
      token == Head(r.rest)
      price == IF lv.threw THEN GetTokenPriceCatch(c.sym)
               ELSE FinalFromLive(lv.value)
      tier == IF LiveAccept(lv.value) THEN 5 ELSE 6
  IN /\ livePrices' = newLive
     /\ \E pushed \in {[r EXCEPT !.rest = Tail(r.rest),
                                 !.acc = Append(r.acc,
                                           ProcessedToken(token,
                                             ParseBalance(token), price, tier))]} :
          Continue(p, pushed, newLive,
                   IF newLive # livePrices THEN Touched(call) ELSE call)
     /\ StaleStep(p)
     /\ UNCHANGED <<tokenPrices, last, memo, rep, observe, apiKey, enableCache, connectedWallets, walletSessions,
                    updaters, initialized, response, routeReq>>

(***************************************************************************)
(* getTokenPrice and fetchLiveTokenPrice as called by the routes           *)
(***************************************************************************)
\* fetchLiveTokenPrice hands lv = [threw, value] back to the suspended caller
\* c of request p; newLive is the live cache it leaves
LiveReturns(p, c, lv, newLive) ==
  IF c.kind = "wallet"
  THEN WalletPriceReturns(p, c, lv, newLive)
  ELSE /\ livePrices' = newLive
       /\ call' = [(IF newLive # livePrices THEN Touched(call) ELSE call)
                     EXCEPT ![p] = Idle]
       /\ IF c.kind = "price"
          THEN LET result == IF lv.threw
                             THEN GetTokenPriceCatch(c.sym)
                             ELSE FinalFromLive(lv.value)
               IN Observed(c, result, FALSE, newLive # livePrices)
          ELSE /\ last' = IF newLive # livePrices THEN NoCall ELSE last
               /\ memo' = IF newLive # livePrices THEN NoMemo ELSE memo
               /\ rep' = IF newLive # livePrices THEN NoRep ELSE rep
       /\ UNCHANGED <<tokenPrices, observe>>
       /\ UNCHANGED restVars

\* getTokenPrice(symbol, moralisPrice, moralisValue, balance) up to its first
\* await, or to its return when no request is needed
GetTokenPrice(p, symbol, moralisPrice, moralisValue, balance) ==
  /\ call[p].pc = "idle"
  /\ LET t == LocalTiers(symbol, moralisPrice, moralisValue, balance, tokenPrices)
         hit == LiveCacheHit(symbol, livePrices)
         c == [Idle EXCEPT !.kind = "price", !.sym = symbol,
                           !.mp = moralisPrice, !.mv = moralisValue,
                           !.bal = balance, !.tableAt = TableAt(symbol),
                           !.liveAt = livePrices[symbol],
                           !.local = LocallyResolvable(symbol, moralisPrice,
                                                       moralisValue, balance)]
     IN IF t.tier < 5
        THEN /\ Observed(c, t.price, FALSE, FALSE)
             /\ UNCHANGED <<tokenPrices, livePrices, call, observe>>
        ELSE IF hit # Null
        THEN /\ Observed(c, FinalFromLive(hit), FALSE, FALSE)
             /\ UNCHANGED <<tokenPrices, livePrices, call, observe>>
        ELSE /\ call' = [call EXCEPT ![p] = [c EXCEPT !.pc = "search"]]
             /\ Started(c)
             /\ UNCHANGED <<tokenPrices, livePrices, observe>>
  /\ UNCHANGED restVars

\* fetchLiveTokenPrice(symbol) called on its own (GET /api/debug/test-specific-token)
FetchLiveTokenPrice(p, symbol) ==
  /\ call[p].pc = "idle"
  /\ LiveCacheHit(symbol, livePrices) = Null
  /\ call' = [call EXCEPT ![p] = [Idle EXCEPT !.pc = "search", !.kind = "live",
                                              !.sym = symbol]]
  /\ last' = NoCall
  /\ memo' = NoMemo
  /\ rep' = NoRep
  /\ UNCHANGED <<tokenPrices, livePrices, observe>>
  /\ UNCHANGED restVars

\* the search request returns: a coin id, no coin, or an error / timeout (5 s)
SearchReturn(p, outcome) ==
  /\ call[p].pc = "search"
  /\ outcome \in {"found", "none", "error"}
  /\ LET c == [call[p] EXCEPT !.net = @ + 1]
     IN CASE outcome = "found" ->
               /\ call' = [call EXCEPT ![p] = [c EXCEPT !.pc = "price"]]
               /\ UNCHANGED <<tokenPrices, livePrices, last, memo, rep, observe>>
               /\ UNCHANGED restVars
          [] outcome = "none" ->
               LiveReturns(p, c, [threw |-> FALSE, value |-> Null], livePrices)
          [] OTHER -> LiveReturns(p, c, FetchLiveCatch, livePrices)

\* the simple/price request returns: usd, or an error / timeout (5 s)
PriceReturn(p, outcome, usd) ==
  /\ call[p].pc = "price"
  /\ outcome \in {"data", "error"}
  /\ LET c == [call[p] EXCEPT !.net = @ + 1]
     IN IF outcome = "error"
        THEN LiveReturns(p, c, FetchLiveCatch, livePrices)
        ELSE IF LiveAccept(usd)
        THEN LiveReturns(p, c, [threw |-> FALSE, value |-> usd],
                         [livePrices EXCEPT ![c.sym] = usd])
        ELSE LiveReturns(p, c, [threw |-> FALSE, value |-> Null], livePrices)

(***************************************************************************)
(* Price resolver specification                                            *)
(***************************************************************************)
PriceInit(mode) ==
  /\ tokenPrices = NoPrices
  /\ livePrices = [s \in Symbols |-> Null]
  /\ call = [p \in Procs |-> Idle]
  /\ last = NoCall
  /\ memo = NoMemo
  /\ rep = NoRep
  /\ observe = mode
  /\ apiKey = TRUE
  /\ enableCache = TRUE
  /\ initialized = FALSE
  /\ updaters = 0
  /\ stale = NoStale
  /\ connectedWallets = EmptyMap
  /\ walletSessions = EmptyMap
  /\ walletCache = [key \in CacheKeys |-> NoEntry]
  /\ req = [p \in Procs |-> ReqIdle]
  /\ response = NoResponse
  /\ routeReq = RouteIdle

PriceNext ==
  \/ \E outcome \in {"data", "nodata", "error"}, usd \in TableUsd :
       UpdateTokenPrices(outcome, usd)
  \/ ExpireTokenPrices
  \/ \E s \in Symbols : ExpireLivePrice(s)
  \/ \E p \in Procs, s \in Symbols, a \in PriceArgs :
       GetTokenPrice(p, s, a.mp, a.mv, a.bal)
  \/ \E p \in Procs, s \in Symbols : FetchLiveTokenPrice(p, s)
  \/ \E p \in Procs, outcome \in {"found", "none", "error"} :
       SearchReturn(p, outcome)
  \/ \E p \in Procs, outcome \in {"data", "error"}, usd \in LiveUsd :
       PriceReturn(p, outcome, usd)

Spec == PriceInit("call") /\ [][PriceNext]_vars

SpecPair == PriceInit("pair") /\ [][PriceNext]_vars


(***************************************************************************)
(* A wallet request against the service                                    *)
(***************************************************************************)
\* the most records one provider answer holds
MaxTokens == 2

\* provider records: a token of neither price table without any quote, the
\* native token with a quote (5/4) and a disagreeing value, a preset token with
\* a zero balance and a value, a preset token (mixed-case address) without quote
\* whose balance (5/2) comes from the raw amount
WalletTokens ==
  { RawToken("XYZ", "0xabc", FALSE, Num(2, 1), Null, 0, Null, Null, FALSE),
    RawToken("ETH", "", TRUE, Num(2, 1), Null, 0, Num(5, 4), Num(5, 1), FALSE),
    RawToken("BUSD", "0xaaa", FALSE, Zero, Null, 0, Null, Num(5, 1), FALSE),
    RawToken("BUSD", "0xAAA", FALSE, Null, Num(25, 1), 1, Null, Null, FALSE) }

ProviderAnswers == UNION { [1..n -> WalletTokens] : n \in 0..MaxTokens }

\* getWalletTokenBalances(walletAddress, chainId) up to its first await
GetWalletTokenBalances(p, walletAddress, chainId) ==
  /\ req[p].pc = "idle"
  /\ call[p].pc = "idle"
  /\ LET r == [ReqIdle EXCEPT !.wallet = walletAddress, !.chain = chainId]
     IN req' = [req EXCEPT ![p] =
                  IF initialized THEN AfterInitialize(r)
                  ELSE IF ~apiKey THEN [r EXCEPT !.pc = "done", !.out = Caught]
                  ELSE [r EXCEPT !.pc = "start"]]
  /\ UNCHANGED <<priceVars, apiKey, enableCache, connectedWallets, walletSessions, updaters, stale, initialized, walletCache, response, routeReq>>

\* Moralis.start returns or throws
StartReturns(p, ok) ==
  /\ req[p].pc = "start"
  /\ IF ok
     THEN /\ initialized' = TRUE
          /\ updaters' = updaters + 1
          /\ req' = [req EXCEPT ![p] = AfterInitialize(req[p])]
     ELSE /\ req' = [req EXCEPT ![p] = [@ EXCEPT !.pc = "done", !.out = Caught]]
          /\ UNCHANGED <<initialized, updaters>>
  /\ UNCHANGED <<priceVars, apiKey, enableCache, connectedWallets, walletSessions, stale, walletCache, response, routeReq>>

\* the price request of `await this.updateTokenPrices()` returns (timeout 10 s)
PricesReturn(p, outcome, usd) ==
  /\ req[p].pc = "prices"
  /\ outcome \in {"data", "nodata", "error"}
  /\ CacheStep(RefreshedTable(outcome, usd), livePrices)
  /\ req' = [req EXCEPT ![p] = [@ EXCEPT !.pc = "moralis"]]
  /\ UNCHANGED <<apiKey, enableCache, connectedWallets, walletSessions, updaters, stale, initialized, walletCache, response, routeReq>>

\* how getWalletTokenBalancesPrice ends: with a response, or throwing for bad
\* credentials (401), for a rate limit (429) or for another reason
MoralisOutcomes == {"ok", "401", "429", "error"}

\* getWalletTokenBalancesPrice throws, or returns records that are processed
MoralisReturns(p, outcome, allTokens) ==
  /\ req[p].pc = "moralis"
  /\ IF outcome = "ok"
     THEN /\ Continue(p, [req[p] EXCEPT !.raw = allTokens, !.rest = allTokens],
                      livePrices, call)
          /\ StaleStep(p)
          /\ UNCHANGED <<tokenPrices, livePrices, last, memo, rep, observe,
                         apiKey, enableCache, connectedWallets, walletSessions, updaters, initialized, response, routeReq>>
     ELSE /\ req' = [req EXCEPT ![p] = [@ EXCEPT !.pc = "done", !.out = Caught]]
          /\ UNCHANGED <<priceVars, apiKey, enableCache, connectedWallets, walletSessions, updaters, stale, initialized, walletCache, response, routeReq>>

\* the caller has the returned array: the request is over
Returned(p) ==
  /\ req[p].pc = "done"
  /\ req' = [req EXCEPT ![p] = ReqIdle]
  /\ UNCHANGED <<priceVars, apiKey, enableCache, connectedWallets, walletSessions, updaters, stale, initialized, walletCache, response, routeReq>>

\* the wallet_tokens entries left when no key is deleted
ClearedNothing(walletAddress) == walletCache

\* the wallet_tokens entries left when only the wallet's entry of chain 1 is
\* deleted
ClearedOnOneChain(walletAddress) ==
  [key \in CacheKeys |->
     IF key = <<walletAddress, 1>> THEN NoEntry ELSE walletCache[key]]

\* the wallet_tokens entries left by clearWalletCache(walletAddress): every
\* key that includes the address is deleted
ClearedEntries(walletAddress) ==
  [key \in CacheKeys |->
     IF key[1] = walletAddress THEN NoEntry ELSE walletCache[key]]

\* clearWalletCache(walletAddress): the wallet's entries are deleted and the
\* price cache is flushed
ClearWalletCache(walletAddress) ==
  /\ walletCache' = ClearedEntries(walletAddress)
  /\ CacheStep(NoPrices, [s \in Symbols |-> Null])
  /\ StaleCleared(walletAddress)
  /\ UNCHANGED <<apiKey, enableCache, connectedWallets, walletSessions, updaters, initialized, req, response, routeReq>>

\* a wallet_tokens entry outlives its TTL (stdTTL 300 s)
ExpireWalletTokens(key) ==
  /\ walletCache[key].cached
  /\ walletCache' = [walletCache EXCEPT ![key] = NoEntry]
  /\ stale' = [stale EXCEPT !.keys = @ \ {key}]
  /\ UNCHANGED <<priceVars, apiKey, enableCache, connectedWallets, walletSessions, updaters, initialized, req, response, routeReq>>

\* updateTokenPrices run by the timers of startPriceUpdater
TimerUpdate(outcome, usd) ==
  /\ initialized
  /\ UpdateTokenPrices(outcome, usd)

PortfolioInit ==
  /\ tokenPrices = NoPrices
  /\ livePrices = [s \in Symbols |-> Null]
  /\ call = [p \in Procs |-> Idle]
  /\ last = NoCall
  /\ memo = NoMemo
  /\ rep = NoRep
  /\ observe = "none"
  /\ apiKey \in BOOLEAN
  /\ enableCache = TRUE
  /\ initialized = FALSE
  /\ updaters = 0
  /\ stale = NoStale
  /\ connectedWallets = EmptyMap
  /\ walletSessions = EmptyMap
  /\ walletCache = [key \in CacheKeys |-> NoEntry]
  /\ req = [p \in Procs |-> ReqIdle]
  /\ response = NoResponse
  /\ routeReq = RouteIdle

PortfolioNext ==
  \/ \E p \in Procs, w \in Wallets, c \in ChainIds :
       GetWalletTokenBalances(p, w, c)
  \/ \E p \in Procs, ok \in BOOLEAN : StartReturns(p, ok)
  \/ \E p \in Procs, outcome \in {"data", "nodata", "error"}, usd \in TableUsd :
       PricesReturn(p, outcome, usd)
  \/ \E p \in Procs, outcome \in MoralisOutcomes, allTokens \in ProviderAnswers :
       MoralisReturns(p, outcome, allTokens)
  \/ \E p \in Procs, outcome \in {"found", "none", "error"} :
       SearchReturn(p, outcome)
  \/ \E p \in Procs, outcome \in {"data", "error"}, usd \in LiveUsd :
       PriceReturn(p, outcome, usd)
  \/ \E p \in Procs : Returned(p)
  \/ \E w \in Wallets : ClearWalletCache(w)
  \/ \E key \in CacheKeys : ExpireWalletTokens(key)
  \/ \E outcome \in {"data", "nodata", "error"}, usd \in TableUsd :
       TimerUpdate(outcome, usd)
  \/ ExpireTokenPrices
  \/ \E s \in Symbols : ExpireLivePrice(s)

\* the service started with ENABLE_CACHE set to "false" or not
CacheSwitchInit ==
  /\ tokenPrices = NoPrices
  /\ livePrices = [s \in Symbols |-> Null]
  /\ call = [p \in Procs |-> Idle]
  /\ last = NoCall
  /\ memo = NoMemo
  /\ rep = NoRep
  /\ observe = "none"
  /\ apiKey = TRUE
  /\ enableCache \in BOOLEAN
  /\ initialized = FALSE
  /\ updaters = 0
  /\ stale = NoStale
  /\ connectedWallets = EmptyMap
  /\ walletSessions = EmptyMap
  /\ walletCache = [key \in CacheKeys |-> NoEntry]
  /\ req = [p \in Procs |-> ReqIdle]
  /\ response = NoResponse
  /\ routeReq = RouteIdle

\* the requests, the invalidation and the expiry of entries, with the price
\* cache changed by the requests only
CacheSwitchNext ==
  \/ \E p \in Procs, w \in Wallets, c \in ChainIds :
       GetWalletTokenBalances(p, w, c)
  \/ \E p \in Procs, ok \in BOOLEAN : StartReturns(p, ok)
  \/ \E p \in Procs, outcome \in {"data", "nodata", "error"}, usd \in TableUsd :
       PricesReturn(p, outcome, usd)
  \/ \E p \in Procs, outcome \in MoralisOutcomes, allTokens \in ProviderAnswers :
       MoralisReturns(p, outcome, allTokens)
  \/ \E p \in Procs, outcome \in {"found", "none", "error"} :
       SearchReturn(p, outcome)
  \/ \E p \in Procs, outcome \in {"data", "error"}, usd \in LiveUsd :
       PriceReturn(p, outcome, usd)
  \/ \E p \in Procs : Returned(p)
  \/ \E w \in Wallets : ClearWalletCache(w)
  \/ \E key \in CacheKeys : ExpireWalletTokens(key)

SpecCacheSwitch == CacheSwitchInit /\ [][CacheSwitchNext]_vars

\* the requests and the invalidation with the wallet spelled either way
SpellingNext ==
  \/ \E p \in Procs, w \in Spellings, c \in ChainIds :
       GetWalletTokenBalances(p, w, c)
  \/ \E p \in Procs, ok \in BOOLEAN : StartReturns(p, ok)
  \/ \E p \in Procs, outcome \in {"data", "nodata", "error"}, usd \in TableUsd :
       PricesReturn(p, outcome, usd)
  \/ \E p \in Procs, outcome \in MoralisOutcomes, allTokens \in ProviderAnswers :
       MoralisReturns(p, outcome, allTokens)
  \/ \E p \in Procs, outcome \in {"found", "none", "error"} :
       SearchReturn(p, outcome)
  \/ \E p \in Procs, outcome \in {"data", "error"}, usd \in LiveUsd :
       PriceReturn(p, outcome, usd)
  \/ \E p \in Procs : Returned(p)
  \/ \E w \in Spellings : ClearWalletCache(w)

SpecSpelling == PortfolioInit /\ [][SpellingNext]_vars

\* a lookup request in flight for request p returns
LookupReturns(p) ==
  \/ \E outcome \in {"found", "none", "error"} : SearchReturn(p, outcome)
  \/ \E outcome \in {"data", "error"}, usd \in LiveUsd :
       PriceReturn(p, outcome, usd)

SpecPortfolio == PortfolioInit /\ [][PortfolioNext]_vars

(***************************************************************************)
(* Two requests for one key at a time                                      *)
(***************************************************************************)
PairProcs == {"r1", "r2"}

\* the answers of the provider to the two requests: one record, or the native
\* record followed by a record that needs a lookup
PairAnswers ==
  { a \in ProviderAnswers :
      \/ Len(a) = 1
      \/ Len(a) = 2 /\ a[1].symbol = "ETH" /\ a[2].symbol = "XYZ" }

\* the service after the initialize() of the server start, with empty caches
PairInit ==
  /\ tokenPrices = NoPrices
  /\ livePrices = [s \in Symbols |-> Null]
  /\ call = [p \in PairProcs |-> Idle]
  /\ last = NoCall
  /\ memo = NoMemo
  /\ rep = NoRep
  /\ observe = "none"
  /\ apiKey = TRUE
  /\ enableCache = TRUE
  /\ initialized = TRUE
  /\ updaters = 1
  /\ stale = NoStale
  /\ connectedWallets = EmptyMap
  /\ walletSessions = EmptyMap
  /\ walletCache = [key \in CacheKeys |-> NoEntry]
  /\ req = [p \in PairProcs |-> ReqIdle]
  /\ response = NoResponse
  /\ routeReq = RouteIdle

\* an awaited call of request p returns: the price request, the provider call
\* or a lookup
AwaitReturns(p) ==
  \/ \E outcome \in {"data", "error"} : PricesReturn(p, outcome, Num(3000, 1))
  \/ \E outcome \in MoralisOutcomes, allTokens \in PairAnswers :
       MoralisReturns(p, outcome, allTokens)
  \/ \E outcome \in {"found", "none", "error"} : SearchReturn(p, outcome)
  \/ \E outcome \in {"data", "error"} : PriceReturn(p, outcome, Num(7, 1))

PairNext ==
  \/ \E p \in PairProcs, w \in Wallets : GetWalletTokenBalances(p, w, 1)
  \/ \E p \in PairProcs : AwaitReturns(p)
  \/ \E p \in PairProcs : Returned(p)

\* every awaited call returns: the requests have timeouts
SpecRequestPair ==
  /\ PairInit
  /\ [][PairNext]_vars
  /\ \A p \in PairProcs : WF_vars(AwaitReturns(p))

\* two requests and clearWalletCache, with the observer of the responses
\* that were held when the wallet was cleared
InvalidateInit ==
  /\ tokenPrices = NoPrices
  /\ livePrices = [s \in Symbols |-> Null]
  /\ call = [p \in PairProcs |-> Idle]
  /\ last = NoCall
  /\ memo = NoMemo
  /\ rep = NoRep
  /\ observe = "stale"
  /\ apiKey = TRUE
  /\ enableCache = TRUE
  /\ initialized = TRUE
  /\ updaters = 1
  /\ stale = NoStale
  /\ connectedWallets = EmptyMap
  /\ walletSessions = EmptyMap
  /\ walletCache = [key \in CacheKeys |-> NoEntry]
  /\ req = [p \in PairProcs |-> ReqIdle]
  /\ response = NoResponse
  /\ routeReq = RouteIdle

InvalidateNext ==
  \/ \E w \in Wallets : ClearWalletCache(w)
  \/ PairNext

SpecInvalidate == InvalidateInit /\ [][InvalidateNext]_vars

\* the service before any initialize() has returned, with two callers of
\* getWalletTokenBalances that both run initialize()
StartupInit ==
  /\ tokenPrices = NoPrices
  /\ livePrices = [s \in Symbols |-> Null]
  /\ call = [p \in PairProcs |-> Idle]
  /\ last = NoCall
  /\ memo = NoMemo
  /\ rep = NoRep
  /\ observe = "none"
  /\ apiKey = TRUE
  /\ enableCache = TRUE
  /\ initialized = FALSE
  /\ updaters = 0
  /\ stale = NoStale
  /\ connectedWallets = EmptyMap
  /\ walletSessions = EmptyMap
  /\ walletCache = [key \in CacheKeys |-> NoEntry]
  /\ req = [p \in PairProcs |-> ReqIdle]
  /\ response = NoResponse
  /\ routeReq = RouteIdle

StartupNext ==
  \/ \E p \in PairProcs, ok \in BOOLEAN : StartReturns(p, ok)
  \/ PairNext

SpecStartup == StartupInit /\ [][StartupNext]_vars

\* every lookup request ends: axios gives up after its 5 s timeout at the latest
SpecPortfolioFair ==
  /\ PortfolioInit
  /\ [][PortfolioNext]_vars
  /\ \A p \in Procs : WF_vars(LookupReturns(p))


(***************************************************************************)
(* GET /api/tokens/wallet/:address (routes/tokens.js)                      *)
(***************************************************************************)
\* sum of parseFloat(t.usd_value) || 0 over raw records
RECURSIVE SumUsdValue(_)
SumUsdValue(tokens) ==
  IF tokens = <<>> THEN Zero
  ELSE Add(IF Truthy(Head(tokens).usd_value) THEN Head(tokens).usd_value ELSE Zero,
           SumUsdValue(Tail(tokens)))

\* the record is a preset token of the chain
IsPreset(token) == ToLowerCase(token.token_address) \in PopularAddresses

\* what getWalletTokenBalances hands the route: the provider's records, native
\* and preset ones displayed, the other ones hidden unless their balance is not
\* positive or they are flagged spam, and the value of the displayed ones
ClassifiedResult(allTokens) ==
  LET displayed == SelectSeq(allTokens,
                     LAMBDA t : IsNativeToken(t) \/ IsPreset(t))
      hidden == SelectSeq(allTokens,
                  LAMBDA t : /\ ~IsNativeToken(t) /\ ~IsPreset(t)
                             /\ Lt(Zero, ParseBalance(t))
                             /\ ~t.possible_spam)
  IN [displayedTokens |-> displayed, hiddenTokens |-> hidden,
      totalValue |-> SumUsdValue(displayed)]

\* the result the route builds when the service throws another error
EmptyResult == [displayedTokens |-> <<>>, hiddenTokens |-> <<>>, totalValue |-> Zero]

\* parseFloat(x) || 0
NumberOrZero(v) == IF Truthy(v) THEN v ELSE Zero

\* processToken of the route
ProcessToken(token, chainId) ==
  LET isNativeToken == IsNativeToken(token)
  IN [id |-> IF isNativeToken THEN <<"native", chainId>>
             ELSE <<ToLowerCase(token.token_address), chainId>>,
      symbol |-> IF token.symbol # "" THEN token.symbol ELSE "UNKNOWN",
      balance |-> ParseBalance(token),
      value |-> NumberOrZero(token.usd_value),
      price |-> NumberOrZero(token.usd_price),
      isNative |-> isNativeToken,
      isPopular |-> TRUE,
      possibleSpam |-> token.possible_spam]

\* the success payload built from the service's result
SuccessResponse(result, chainId, showHiddenTokens) ==
  LET displayedTokens == [i \in 1..Len(result.displayedTokens) |->
                            ProcessToken(result.displayedTokens[i], chainId)]
      hiddenTokens == [i \in 1..Len(result.hiddenTokens) |->
                         ProcessToken(result.hiddenTokens[i], chainId)]
      tokensToReturn == IF showHiddenTokens
                        THEN displayedTokens \o hiddenTokens
                        ELSE displayedTokens
  IN [k |-> "success",
      chainId |-> chainId,
      tokens |-> SortByValue(tokensToReturn),
      totalValue |-> result.totalValue,
      tokenCount |-> Len(tokensToReturn),
      presetTokenCount |-> Len(displayedTokens),
      hiddenTokenCount |-> Len(hiddenTokens),
      showingHidden |-> showHiddenTokens]

\* the records of the route's provider answers: the native token with a price
\* and a disagreeing value, a preset token with zero balance and a value, a
\* preset token with a negative balance, a preset token whose value is its
\* balance times its price, two other tokens without value, one other token
\* with a value, and one flagged spam
RouteTokens ==
  { RawToken("ETH", "", TRUE, Num(2, 1), Null, 0, Num(3, 1), Num(5, 1), FALSE),
    RawToken("BUSD", "0xaaa", FALSE, Zero, Null, 0, Num(1, 1), Num(5, 1), FALSE),
    RawToken("BUSD", "0xAAA", FALSE, Num(-1, 1), Null, 0, Num(1, 1), Num(-1, 1), FALSE),
    RawToken("BUSD", "0xaaa", FALSE, Num(5, 1), Null, 0, Num(1, 1), Num(5, 1), FALSE),
    RawToken("XYZ", "0xabc", FALSE, Num(2, 1), Null, 0, Null, Null, FALSE),
    RawToken("XYZ", "0xdef", FALSE, Num(3, 1), Null, 0, Null, Null, FALSE),
    RawToken("XYZ", "0xbbb", FALSE, Num(4, 1), Null, 0, Num(2, 1), Num(8, 1), FALSE),
    RawToken("XYZ", "0xccc", FALSE, Num(1, 1), Null, 0, Num(9, 1), Num(9, 1), TRUE) }

RouteAnswers == UNION { [1..n -> RouteTokens] : n \in 0..MaxTokens }

\* the decimal digits and their values
Digits == {"0", "1", "2", "3", "4", "5", "6", "7", "8", "9"}

DigitValue(ch) ==
  CASE ch = "0" -> 0 [] ch = "1" -> 1 [] ch = "2" -> 2 [] ch = "3" -> 3
    [] ch = "4" -> 4 [] ch = "5" -> 5 [] ch = "6" -> 6 [] ch = "7" -> 7
    [] ch = "8" -> 8 [] OTHER -> 9

\* the number of leading characters of chars that are digits
RECURSIVE LeadingDigits(_)
LeadingDigits(chars) ==
  IF chars = <<>> \/ Head(chars) \notin Digits THEN 0
  ELSE 1 + LeadingDigits(Tail(chars))

\* the value of a sequence of digits
RECURSIVE DigitsValue(_)
DigitsValue(chars) ==
  IF chars = <<>> THEN 0
  ELSE 10 * DigitsValue(SubSeq(chars, 1, Len(chars) - 1))
       + DigitValue(chars[Len(chars)])

\* parseInt(chain) of a string of digits and letters: the leading digits are
\* read and whatever follows them is ignored; NaN when there is none
ParseInt(chars) ==
  IF LeadingDigits(chars) = 0 THEN NaN
  ELSE Num(DigitsValue(SubSeq(chars, 1, LeadingDigits(chars))), 1)

\* req.query.chain as a string of characters, or not given
ChainQuery(given, chars) == [given |-> given, chars |-> chars]

\* the chain parameters sent: none, "", "a", "1", "999" and "1a"
ChainParams ==
  { ChainQuery(FALSE, <<>>), ChainQuery(TRUE, <<>>), ChainQuery(TRUE, <<"a">>),
    ChainQuery(TRUE, <<"1">>), ChainQuery(TRUE, <<"9", "9", "9">>),
    ChainQuery(TRUE, <<"1", "a">>) }

\* how the awaited service call ends: with a result object, with an array of
\* processed tokens, or throwing an error whose message holds "Invalid
\* address", "Invalid chain", "API key" or none of them
ServiceOutcomes ==
  {"result", "array", "Invalid address", "Invalid chain", "API key", "other"}

\* ResponseUtil.validation(res, message) and ResponseUtil.error(res, message,
\* 503)
Validation(message) == [k |-> "validation", message |-> message]

Error503(message) == [k |-> "error503", message |-> message]

\* the validation of GET /wallet/:address: the address against
\* /^0x[a-fA-F0-9]{40}$/, then the chain parameter, then its parseInt
RequestError(addressOk, chain) ==
  IF ~addressOk THEN "Invalid wallet address format"
  ELSE IF ~chain.given \/ chain.chars = <<>> THEN "Chain ID is required"
  ELSE IF ParseInt(chain.chars) = NaN THEN "Invalid chain ID"
  ELSE ""

\* GET /wallet/:address answering the validation of the address only
RouteRequestAddressOnly(addressOk, chain, showHidden) ==
  /\ routeReq.pc = "idle"
  /\ IF ~addressOk
     THEN /\ response' = Validation("Invalid wallet address format")
          /\ UNCHANGED routeReq
     ELSE /\ response' = NoResponse
          /\ routeReq' = [pc |-> IF initialized THEN "service" ELSE "initialize",
                          chainId |-> ParseInt(chain.chars).n,
                          showHidden |-> showHidden]
  /\ UNCHANGED <<priceVars, apiKey, enableCache, connectedWallets, walletSessions, updaters, stale, initialized, walletCache, req>>

\* GET /wallet/:address up to its first await: the validation, then the
\* initialize() of a service not yet initialized, else the service call
RouteRequest(addressOk, chain, showHidden) ==
  /\ routeReq.pc = "idle"
  /\ IF RequestError(addressOk, chain) # ""
     THEN /\ response' = Validation(RequestError(addressOk, chain))
          /\ UNCHANGED routeReq
     ELSE /\ response' = NoResponse
          /\ routeReq' = [pc |-> IF initialized THEN "service" ELSE "initialize",
                          chainId |-> ParseInt(chain.chars).n,
                          showHidden |-> showHidden]
  /\ UNCHANGED <<priceVars, apiKey, enableCache, connectedWallets, walletSessions, updaters, stale, initialized, walletCache, req>>

\* the awaited initialize() returns or throws
RouteInitializeReturns(ok) ==
  /\ routeReq.pc = "initialize"
  /\ IF ok
     THEN /\ initialized' = TRUE
          /\ updaters' = updaters + 1
          /\ routeReq' = [routeReq EXCEPT !.pc = "service"]
          /\ UNCHANGED response
     ELSE /\ response' = Error503("Service initialization failed")
          /\ routeReq' = RouteIdle
          /\ UNCHANGED <<initialized, updaters>>
  /\ UNCHANGED <<priceVars, apiKey, enableCache, connectedWallets, walletSessions, stale, walletCache, req>>

\* the awaited getWalletTokenBalances returns or throws, and the handler runs
\* to its answer; an array has no displayedTokens, and the outer catch answers
RouteServiceReturns(outcome, allTokens) ==
  /\ routeReq.pc = "service"
  /\ response' =
       CASE outcome = "result" ->
              SuccessResponse(ClassifiedResult(allTokens), routeReq.chainId,
                              routeReq.showHidden)
         [] outcome = "array" -> [k |-> "serverError"]
         [] outcome = "Invalid address" -> Validation("Invalid wallet address")
         [] outcome = "Invalid chain" -> Validation("Unsupported chain ID")
         [] outcome = "API key" -> Error503("API configuration error")
         [] OTHER -> SuccessResponse(EmptyResult, routeReq.chainId,
                                     routeReq.showHidden)
  /\ routeReq' = RouteIdle
  /\ UNCHANGED <<priceVars, apiKey, enableCache, connectedWallets, walletSessions, updaters, stale, initialized, walletCache, req>>

RouteInit ==
  /\ tokenPrices = NoPrices
  /\ livePrices = [s \in Symbols |-> Null]
  /\ call = [p \in Procs |-> Idle]
  /\ last = NoCall
  /\ memo = NoMemo
  /\ rep = NoRep
  /\ observe = "none"
  /\ apiKey = TRUE
  /\ enableCache = TRUE
  /\ initialized = FALSE
  /\ updaters = 0
  /\ stale = NoStale
  /\ connectedWallets = EmptyMap
  /\ walletSessions = EmptyMap
  /\ walletCache = [key \in CacheKeys |-> NoEntry]
  /\ req = [p \in Procs |-> ReqIdle]
  /\ response = NoResponse
  /\ routeReq = RouteIdle

RouteNext ==
  \/ \E addressOk \in BOOLEAN, chain \in ChainParams, showHidden \in BOOLEAN :
        RouteRequest(addressOk, chain, showHidden)
  \/ \E ok \in BOOLEAN : RouteInitializeReturns(ok)
  \/ \E outcome \in ServiceOutcomes, allTokens \in RouteAnswers :
        RouteServiceReturns(outcome, allTokens)

SpecRoute == RouteInit /\ [][RouteNext]_vars

(***************************************************************************)
(* POST /refresh/:address, and the routes over a service that has cached   *)
(***************************************************************************)
\* POST /refresh/:address: the validation of the address, then
\* clearWalletCache(address) and the success answer
RefreshRoute(addressOk, walletAddress) ==
  IF ~addressOk
  THEN /\ response' = Validation("Invalid wallet address format")
       /\ UNCHANGED <<priceVars, apiKey, enableCache, connectedWallets, walletSessions, updaters, stale, initialized, walletCache, req, routeReq>>
  ELSE /\ response' = [k |-> "cleared"]
       /\ walletCache' = ClearedEntries(walletAddress)
       /\ CacheStep(NoPrices, [s \in Symbols |-> Null])
       /\ StaleCleared(walletAddress)
       /\ UNCHANGED <<apiKey, enableCache, connectedWallets, walletSessions, updaters, initialized, req, routeReq>>

\* a wallet_tokens entry written by a pass that kept no token
EmptyEntry == [cached |-> TRUE, tokens |-> <<>>]

\* the caches as earlier requests may have left them: an entry or none for
\* each wallet on each chain of chainConfig, and a price cache that is empty
\* or holds the table and a live price; nothing is cached before initialize()
ServerInit ==
  /\ \/ /\ tokenPrices = NoPrices
        /\ livePrices = [s \in Symbols |-> Null]
     \/ /\ tokenPrices = RefreshedTable("error", Null)
        /\ livePrices = [s \in Symbols |-> IF s = "XYZ" THEN Num(7, 1) ELSE Null]
  /\ call = [p \in Procs |-> Idle]
  /\ last = NoCall
  /\ memo = NoMemo
  /\ rep = NoRep
  /\ observe = "none"
  /\ apiKey = TRUE
  /\ enableCache = TRUE
  /\ walletCache \in
       { c \in [CacheKeys -> {NoEntry, EmptyEntry}] :
           \A key \in CacheKeys :
             c[key].cached => key \in AllWallets \X SupportedChains }
  /\ initialized \in BOOLEAN
  /\ updaters = IF initialized THEN 1 ELSE 0
  /\ stale = NoStale
  /\ connectedWallets = EmptyMap
  /\ walletSessions = EmptyMap
  /\ initialized \/ (~tokenPrices.cached
                        /\ \A key \in CacheKeys : ~walletCache[key].cached)
  /\ req = [p \in Procs |-> ReqIdle]
  /\ response = NoResponse
  /\ routeReq = RouteIdle

ServerNext ==
  \/ RouteNext
  \/ \E addressOk \in BOOLEAN, walletAddress \in AllWallets :
       RefreshRoute(addressOk, walletAddress)

SpecServer == ServerInit /\ [][ServerNext]_vars


(***************************************************************************)
(* processTokenBalances: the version of part_000:213-465 and the version   *)
(* of services/moralis/index.js:193-337                                    *)
(***************************************************************************)
\* the native sentinel address in lower case, as part_000:259-262 spells it too
NativeSentinelLower == "0xeeeeeeeeeeeeeeeeeeeeeeeeeeeeeeeeeeeeeeee"

\* isNativeToken of part_000:256-263
IsNativeTokenV1(token) ==
  \/ token.native_token
  \/ token.token_address = NativeSentinel
  \/ token.token_address = NativeSentinelLower
  \/ token.token_address = ""

\* chainInfo.popularTokens.find(pt => pt.address.toLowerCase() ===
\* token.token_address?.toLowerCase())
IsPopularToken(token) == ToLowerCase(token.token_address) \in PopularAddresses

\* possible_spam records below this balance are dropped (balance < 0.001)
SpamBalance == Num(1, 1000)

\* the record goes on after the balance filter and the spam filter of
\* part_000:265-297
KeptV1(token, balance) ==
  /\ ~(/\ balance.k = "num" /\ balance.n <= 0
       /\ ~IsNativeTokenV1(token)
       /\ ~IsPopularToken(token) /\ balance = Zero)
  /\ ~(/\ token.possible_spam /\ Lt(balance, SpamBalance)
       /\ ~IsNativeTokenV1(token)
       /\ ~IsPopularToken(token))

\* price and value of part_000:299-315
QuoteV1(token, balance) ==
  LET price1 == IF token.usd_price # Null THEN NumberOrZero(token.usd_price)
                ELSE Zero
      value1 == IF token.usd_price # Null THEN Mul(balance, price1) ELSE Zero
      value2 == IF token.usd_value # Null /\ Truthy(token.usd_value)
                THEN token.usd_value ELSE value1
      price2 == IF token.usd_value # Null /\ Lt(Zero, balance) /\ Lt(Zero, value2)
                THEN Div(value2, balance) ELSE price1
  IN [price |-> price2, value |-> value2]

\* one pass of the loop body of part_000:224-428: Skip, or the token pushed
LoopBodyV1(token) ==
  LET balance == ParseBalance(token)
      native == IsNativeTokenV1(token)
      quote == QuoteV1(token, balance)
  IN IF ~KeptV1(token, balance) THEN Skip
     ELSE [id |-> IF native THEN "native" ELSE ToLowerCase(token.token_address),
           symbol |-> IF token.symbol # "" THEN token.symbol
                      ELSE IF native THEN ChainSymbol ELSE "UNKNOWN",
           balance |-> balance,
           price |-> quote.price,
           value |-> quote.value,
           isNative |-> native,
           isPopular |-> native \/ IsPopularToken(token),
           possibleSpam |-> ~native /\ token.possible_spam]

\* processedTokens.sort of part_000:436-442: value descending, then balance
\* descending, stable
SortByValueThenBalance(s) ==
  LET n == Len(s)
      before(a, b) == \/ Lt(b.value, a.value)
                      \/ a.value = b.value /\ Lt(b.balance, a.balance)
      pos(i) == 1 + Cardinality({j \in 1..n :
                       \/ before(s[j], s[i])
                       \/ ~before(s[i], s[j]) /\ j < i})
  IN [k \in 1..n |-> s[CHOOSE i \in 1..n : pos(i) = k]]

\* parseFloat(x || "0")
ParseOrZero(v) == IF v # Null THEN v ELSE Zero

\* the native test of services/moralis/index.js:244-247
IsNativeTokenIndex(token) ==
  token.native_token \/ token.token_address = NativeSentinel

\* one pass of the loop body of services/moralis/index.js:202-320: Skip, or
\* the token pushed; a record that is not native and has no address is left
IndexLoopBody(token) ==
  LET balance == ParseOrZero(token.balance_formatted)
      native == IsNativeTokenIndex(token)
  IN IF SkippedBalance(balance) THEN Skip
     ELSE IF token.possible_spam /\ ~IsPopularToken(token) THEN Skip
     ELSE IF ~native /\ token.token_address = "" THEN Skip
     ELSE [id |-> IF native THEN "native" ELSE ToLowerCase(token.token_address),
           symbol |-> IF token.symbol # "" THEN token.symbol
                      ELSE IF native THEN ChainSymbol ELSE "UNKNOWN",
           balance |-> balance,
           price |-> ParseOrZero(token.usd_price),
           value |-> ParseOrZero(token.usd_value),
           isNative |-> native,
           isPopular |-> ~native /\ IsPopularToken(token),
           possibleSpam |-> ~native /\ token.possible_spam]

\* the tokens pushed by the passes, in order
Pushed(passes) == SelectSeq(passes, LAMBDA t : t # Skip)

\* records of provider answers for processTokenBalances: native by flag, by
\* flag and flagged spam, by the sentinel address in three spellings, by a
\* missing address; preset with zero balance, preset and flagged spam; other
\* tokens with negative, zero and positive balance, and flagged spam with a
\* large and with a tiny balance
VersionTokens ==
  { RawToken("ETH", "", TRUE, Num(2, 1), Null, 0, Num(3, 1), Num(6, 1), FALSE),
    RawToken("ETH", "", TRUE, Num(2, 1), Null, 0, Num(3, 1), Num(6, 1), TRUE),
    RawToken("ETH", NativeSentinel, FALSE, Num(1, 1), Null, 0, Null, Null, FALSE),
    RawToken("ETH", NativeSentinelLower, FALSE, Num(1, 1), Null, 0, Null, Null, FALSE),
    RawToken("ETH", "0xEEEEEEEEEEEEEEEEEEEEEEEEEEEEEEEEEEEEEEEE", FALSE,
             Num(1, 1), Null, 0, Null, Null, FALSE),
    RawToken("ETH", "", FALSE, Num(1, 1), Null, 0, Null, Null, FALSE),
    RawToken("BUSD", "0xaaa", FALSE, Zero, Null, 0, Null, Null, FALSE),
    RawToken("BUSD", "0xAAA", FALSE, Num(2, 1), Null, 0, Num(1, 1), Num(2, 1), TRUE),
    RawToken("XYZ", "0xabc", FALSE, Num(-1, 1), Null, 0, Null, Null, FALSE),
    RawToken("XYZ", "0xabc", FALSE, Zero, Null, 0, Null, Null, FALSE),
    RawToken("XYZ", "0xbbb", FALSE, Num(4, 1), Null, 0, Num(2, 1), Num(8, 1), FALSE),
    RawToken("XYZ", "0xccc", FALSE, Num(1000, 1), Null, 0, Null, Null, TRUE),
    RawToken("XYZ", "0xccc", FALSE, Num(1, 10000), Null, 0, Null, Null, TRUE) }

VersionAnswers == UNION { [1..n -> VersionTokens] : n \in 0..MaxTokens }

\* what a call of processTokenBalances left: the version, the passes of the
\* loop body record by record (observer), and the array returned
Processed(version, passes, tokens) ==
  [k |-> "processed", version |-> version, passes |-> passes, tokens |-> tokens]

\* processTokenBalances of a version threw
Thrown(version) ==
  [k |-> "thrown", version |-> version, passes |-> <<>>, tokens |-> <<>>]

\* processTokenBalances(tokenData, chainId) of part_000:213-465: an unknown
\* chain returns []
ProcessTokenBalances(p, tokenData, chainId) ==
  /\ req[p].pc = "idle"
  /\ \E passes \in {IF chainId \in SupportedChains
                    THEN [i \in 1..Len(tokenData) |-> LoopBodyV1(tokenData[i])]
                    ELSE <<>>} :
       req' = [req EXCEPT ![p] =
                 [ReqIdle EXCEPT !.pc = "done", !.chain = chainId,
                                 !.raw = tokenData,
                                 !.out = Processed("part_000", passes,
                                           SortByValueThenBalance(Pushed(passes)))]]
  /\ UNCHANGED <<priceVars, apiKey, enableCache, connectedWallets, walletSessions, updaters, stale, initialized, walletCache, response, routeReq>>

\* processTokenBalances(tokenData, chainId) of services/moralis/index.js: an
\* unknown chain throws
ProcessTokenBalancesIndex(p, tokenData, chainId) ==
  /\ req[p].pc = "idle"
  /\ \E passes \in {[i \in 1..Len(tokenData) |-> IndexLoopBody(tokenData[i])]} :
       req' = [req EXCEPT ![p] =
                 [ReqIdle EXCEPT !.pc = "done", !.chain = chainId,
                                 !.raw = tokenData,
                                 !.out = IF chainId \in SupportedChains
                                         THEN Processed("index", passes,
                                                SortByValue(Pushed(passes)))
                                         ELSE Thrown("index")]]
  /\ UNCHANGED <<priceVars, apiKey, enableCache, connectedWallets, walletSessions, updaters, stale, initialized, walletCache, response, routeReq>>

VersionsNext ==
  \/ \E p \in Procs, tokenData \in VersionAnswers, chainId \in ChainIds :
       ProcessTokenBalances(p, tokenData, chainId)
  \/ \E p \in Procs, tokenData \in VersionAnswers, chainId \in ChainIds :
       ProcessTokenBalancesIndex(p, tokenData, chainId)
  \/ \E p \in Procs : Returned(p)

SpecVersions == RouteInit /\ [][VersionsNext]_vars

(***************************************************************************)
(* getWalletTokenBalances of part_000:613-790: the native balance and the  *)
(* balances of the preset tokens come from two provider calls              *)
(***************************************************************************)
\* price and value of part_000:862-895
QuoteV2(token, balance) ==
  IF token.usd_price # Null /\ token.usd_price # Zero
  THEN [price |-> NumberOrZero(token.usd_price),
        value |-> Mul(balance, NumberOrZero(token.usd_price))]
  ELSE IF token.usd_value # Null /\ token.usd_value # Zero
  THEN LET value == NumberOrZero(token.usd_value)
       IN [price |-> IF Lt(Zero, balance) /\ Lt(Zero, value)
                     THEN Div(value, balance) ELSE Zero,
           value |-> value]
  ELSE [price |-> Zero, value |-> Zero]

\* one pass of the loop body of part_000:806-984: Skip, or the token pushed
LoopBodyV2(token) ==
  LET balance == ParseBalance(token)
      native == token.native_token \/ token.token_address = ""
      quote == QuoteV2(token, balance)
  IN IF SkippedBalance(balance) /\ ~token.native_token THEN Skip
     ELSE [id |-> IF native THEN "native" ELSE ToLowerCase(token.token_address),
           symbol |-> IF token.symbol # "" THEN token.symbol
                      ELSE IF native THEN ChainSymbol ELSE "UNKNOWN",
           balance |-> balance,
           price |-> quote.price,
           value |-> quote.value,
           isNative |-> native,
           isPopular |-> native \/ IsPopularToken(token),
           possibleSpam |-> ~native /\ token.possible_spam]

\* processTokenBalances(tokenData, chainId) of part_000:796-1001
ProcessedV2(tokenData) ==
  SortByValueThenBalance(
    Pushed([i \in 1..Len(tokenData) |-> LoopBodyV2(tokenData[i])]))

\* the record pushed for a native balance with the price of the reference
\* token (part_000:691-706); processTokenBalances reads balance_formatted
NativeRecord(nativeBalance, nativePrice) ==
  RawToken(ChainSymbol, "", TRUE, nativeBalance, Null, DefaultDecimals,
           nativePrice, Mul(nativeBalance, nativePrice), FALSE)

\* result.balance of getNativeBalance over 1e18
NativeBalances == {Zero, Num(2, 1)}

\* records of the answer for the preset token addresses
PresetTokens ==
  { RawToken("BUSD", "0xaaa", FALSE, Num(5, 1), Null, DefaultDecimals,
             Num(1, 1), Num(5, 1), FALSE),
    RawToken("BUSD", "0xaaa", FALSE, Num(2, 1), Null, DefaultDecimals,
             Null, Num(4, 1), FALSE),
    RawToken("BUSD", "0xAAA", FALSE, Zero, Null, DefaultDecimals,
             Null, Null, FALSE) }

PresetAnswers == UNION { [1..n -> PresetTokens] : n \in 0..MaxTokens }

\* getWalletTokenBalances(walletAddress, chainId) of an initialized service
\* up to the await of getNativeBalance
GetWalletTokenBalancesV2(p, walletAddress, chainId) ==
  /\ initialized
  /\ req[p].pc = "idle"
  /\ LET r == [ReqIdle EXCEPT !.wallet = walletAddress, !.chain = chainId]
         entry == walletCache[<<walletAddress, chainId>>]
     IN req' = [req EXCEPT ![p] =
                  IF entry.cached /\ enableCache
                  THEN [r EXCEPT !.pc = "done",
                                 !.out = [k |-> "cached", tokens |-> entry.tokens]]
                  ELSE IF chainId \notin SupportedChains
                  THEN [r EXCEPT !.pc = "done", !.out = Caught]
                  ELSE [r EXCEPT !.pc = "native"]]
  /\ UNCHANGED <<priceVars, apiKey, enableCache, connectedWallets, walletSessions, updaters, stale, initialized, walletCache, response, routeReq>>

\* getNativeBalance returns a balance or throws; a positive balance asks for
\* the price of the reference token, and anything else goes on to the call
\* for the preset tokens
NativeReturns(p, outcome, nativeBalance) ==
  /\ req[p].pc = "native"
  /\ outcome \in {"ok", "error"}
  /\ req' = [req EXCEPT ![p] =
               IF outcome = "ok" /\ nativeBalance # Zero
               THEN [@ EXCEPT !.pc = "nativePrice",
                              !.raw = <<NativeRecord(nativeBalance, Zero)>>]
               ELSE [@ EXCEPT !.pc = "preset"]]
  /\ UNCHANGED <<priceVars, apiKey, enableCache, connectedWallets, walletSessions, updaters, stale, initialized, walletCache, response, routeReq>>

\* Moralis getTokenPrice of the reference token returns usdPrice or throws:
\* the native record is pushed with that price, or with 0
NativePriceReturns(p, outcome, usdPrice) ==
  /\ req[p].pc = "nativePrice"
  /\ outcome \in {"ok", "error"}
  /\ req' = [req EXCEPT ![p] =
               [@ EXCEPT !.pc = "preset",
                         !.raw = <<NativeRecord(@[1].balance_formatted,
                                     IF outcome = "ok"
                                     THEN NumberOrZero(usdPrice) ELSE Zero)>>]]
  /\ UNCHANGED <<priceVars, apiKey, enableCache, connectedWallets, walletSessions, updaters, stale, initialized, walletCache, response, routeReq>>

\* getWalletTokenBalancesPrice for the preset addresses returns or throws (the
\* catch of part_000:757-759 logs); what was collected is processed, written
\* to the cache and returned
PresetReturns(p, outcome, tokenResults) ==
  /\ req[p].pc = "preset"
  /\ outcome \in {"ok", "error"}
  /\ \E allTokens \in {IF outcome = "ok" THEN req[p].raw \o tokenResults
                        ELSE req[p].raw} :
       \E tokens \in {ProcessedV2(allTokens)} :
         /\ walletCache' = [walletCache EXCEPT
                              ![<<req[p].wallet, req[p].chain>>] =
                                [cached |-> TRUE, tokens |-> tokens]]
         /\ req' = [req EXCEPT ![p] =
                      [@ EXCEPT !.pc = "done", !.raw = allTokens,
                                !.out = [k |-> "snapshot", tokens |-> tokens]]]
  /\ UNCHANGED <<priceVars, apiKey, enableCache, connectedWallets, walletSessions, updaters, stale, initialized, response, routeReq>>

\* the service of part_000:568-1148 after the initialize() of the server start
PresetInit ==
  /\ tokenPrices = NoPrices
  /\ livePrices = [s \in Symbols |-> Null]
  /\ call = [p \in Procs |-> Idle]
  /\ last = NoCall
  /\ memo = NoMemo
  /\ rep = NoRep
  /\ observe = "none"
  /\ apiKey = TRUE
  /\ enableCache = TRUE
  /\ initialized = TRUE
  /\ updaters = 0
  /\ stale = NoStale
  /\ connectedWallets = EmptyMap
  /\ walletSessions = EmptyMap
  /\ walletCache = [key \in CacheKeys |-> NoEntry]
  /\ req = [p \in Procs |-> ReqIdle]
  /\ response = NoResponse
  /\ routeReq = RouteIdle

PresetNext ==
  \/ \E p \in Procs, w \in Wallets, c \in ChainIds :
       GetWalletTokenBalancesV2(p, w, c)
  \/ \E p \in Procs, outcome \in {"ok", "error"}, b \in NativeBalances :
       NativeReturns(p, outcome, b)
  \/ \E p \in Procs, outcome \in {"ok", "error"} :
       NativePriceReturns(p, outcome, Num(3000, 1))
  \/ \E p \in Procs, outcome \in {"ok", "error"}, tokenResults \in PresetAnswers :
       PresetReturns(p, outcome, tokenResults)
  \/ \E p \in Procs : Returned(p)
  \/ \E key \in CacheKeys : ExpireWalletTokens(key)

SpecPreset == PresetInit /\ [][PresetNext]_vars

\* records for the balance parsing: with and without balance_formatted, with
\* no raw amount, a raw amount of zero, of 10^9 and of 2 * 10^9, and
\* with decimals absent, 0, 1 and 9
BalanceTokens ==
  { RawToken("XYZ", "0xabc", FALSE, formatted, raw, decimals, Null, Null, FALSE) :
      formatted \in {Null, Num(3, 1)},
      raw \in {Null, Zero, Num(1000000000, 1), Num(2000000000, 1)},
      decimals \in {NoDecimals, 0, 1, 9} }

\* processTokenBalances of both versions on answers of one record
BalanceNext ==
  \/ \E p \in Procs, token \in BalanceTokens, chainId \in ChainIds :
       ProcessTokenBalances(p, <<token>>, chainId)
  \/ \E p \in Procs, token \in BalanceTokens, chainId \in ChainIds :
       ProcessTokenBalancesIndex(p, <<token>>, chainId)
  \/ \E p \in Procs : Returned(p)

SpecBalance == RouteInit /\ [][BalanceNext]_vars


(***************************************************************************)
(* WalletController (services/wallet-connect): connect, disconnect,        *)
(* switchChain and getStatus over the Maps connectedWallets and            *)
(* walletSessions. No handler awaits: each runs in one step. The time      *)
(* stamps connectedAt and lastActivity are left out.                       *)
(***************************************************************************)
\* Map.set(key, value) and Map.delete(key)
MapSet(m, key, value) ==
  [x \in DOMAIN m \cup {key} |-> IF x = key THEN value ELSE m[x]]

MapDelete(m, key) == [x \in DOMAIN m \ {key} |-> m[x]]

\* ids of the chains array that the requests name, and an id that is not in it
WalletChains == {1, 56}

WalletChainParams == {0, 1, 56, 999}

\* addresses of the requests: none, one that fails the format test, and one
\* that passes it
WalletAddresses == {"", "zz", "0xw"}

\* /^0x[a-fA-F0-9]{40}$/.test(address)
AddressFormatOk(address) == address = "0xw"

\* session ids the clients send ("" : none) and the ids uuid.v4() gives
SessionIds == {"s1", "s2"}

Uuids == {"u1"}

WalletTypes == {"", "metamask"}

\* `${address}_${chainId}`
WalletId(address, chainId) == <<address, chainId>>

NotFound == [k |-> "notFound", message |-> "Wallet session not found"]

\* the session's wallet as getStatus finds it, or "" when it answers 404
StatusWallet(sessionId) ==
  IF sessionId \in DOMAIN walletSessions
       /\ walletSessions[sessionId] \in DOMAIN connectedWallets
  THEN walletSessions[sessionId]
  ELSE WalletId("", 0)

\* the answer of getStatus(sessionId) for a session id that is given
StatusOf(sessionId) ==
  LET walletId == StatusWallet(sessionId)
  IN IF walletId = WalletId("", 0) THEN NotFound
     ELSE [k |-> "status", isConnected |-> TRUE,
           id |-> connectedWallets[walletId].id,
           address |-> connectedWallets[walletId].address,
           chain |-> connectedWallets[walletId].chainId,
           walletType |-> connectedWallets[walletId].walletType]

\* POST /connect
Connect(address, chainId, walletType, sessionId, uuid) ==
  /\ IF address = "" \/ chainId = 0 \/ walletType = ""
     THEN /\ response' = Validation("required")
          /\ UNCHANGED <<connectedWallets, walletSessions>>
     ELSE IF ~AddressFormatOk(address)
     THEN /\ response' = Validation("Invalid wallet address format")
          /\ UNCHANGED <<connectedWallets, walletSessions>>
     ELSE IF chainId \notin WalletChains
     THEN /\ response' = Validation("Chain ID is not supported")
          /\ UNCHANGED <<connectedWallets, walletSessions>>
     ELSE LET walletId == WalletId(address, chainId)
              session == IF sessionId # "" THEN sessionId ELSE uuid
          IN /\ sessionId = "" => uuid \notin DOMAIN walletSessions
             /\ connectedWallets' =
                  MapSet(connectedWallets, walletId,
                         [id |-> walletId, address |-> address,
                          chainId |-> chainId, walletType |-> walletType,
                          sessionId |-> session])
             /\ walletSessions' = MapSet(walletSessions, session, walletId)
             /\ response' = [k |-> "connected", walletId |-> walletId,
                             sessionId |-> session]
  /\ UNCHANGED <<priceVars, apiKey, enableCache, updaters, stale, initialized, walletCache, req, routeReq>>

\* POST /disconnect with sessionId and walletId ("" : not given)
Disconnect(sessionId, walletId) ==
  /\ IF sessionId = "" /\ walletId = WalletId("", 0)
     THEN /\ response' = Validation("Either sessionId or walletId is required")
          /\ UNCHANGED <<connectedWallets, walletSessions>>
     ELSE LET targetWalletId ==
                IF walletId # WalletId("", 0) THEN walletId
                ELSE IF sessionId \in DOMAIN walletSessions
                THEN walletSessions[sessionId]
                ELSE WalletId("", 0)
          IN IF targetWalletId \notin DOMAIN connectedWallets
             THEN /\ response' = NotFound
                  /\ UNCHANGED <<connectedWallets, walletSessions>>
             ELSE /\ connectedWallets' = MapDelete(connectedWallets, targetWalletId)
                  /\ walletSessions' =
                       MapDelete(walletSessions,
                                 connectedWallets[targetWalletId].sessionId)
                  /\ response' = [k |-> "disconnected"]
  /\ UNCHANGED <<priceVars, apiKey, enableCache, updaters, stale, initialized, walletCache, req, routeReq>>

\* POST /switch-chain
SwitchChain(sessionId, chainId) ==
  /\ IF sessionId = "" \/ chainId = 0
     THEN /\ response' = Validation("required")
          /\ UNCHANGED <<connectedWallets, walletSessions>>
     ELSE IF chainId \notin WalletChains
     THEN /\ response' = Validation("Chain ID is not supported")
          /\ UNCHANGED <<connectedWallets, walletSessions>>
     ELSE IF StatusWallet(sessionId) = WalletId("", 0)
     THEN /\ response' = NotFound
          /\ UNCHANGED <<connectedWallets, walletSessions>>
     ELSE LET walletId == walletSessions[sessionId]
              walletData == connectedWallets[walletId]
              newWalletId == WalletId(walletData.address, chainId)
          IN /\ connectedWallets' =
                  MapSet(MapDelete(connectedWallets, walletId), newWalletId,
                         [walletData EXCEPT !.id = newWalletId,
                                            !.chainId = chainId])
             /\ walletSessions' = MapSet(walletSessions, sessionId, newWalletId)
             /\ response' = [k |-> "switched", walletId |-> newWalletId]
  /\ UNCHANGED <<priceVars, apiKey, enableCache, updaters, stale, initialized, walletCache, req, routeReq>>

\* GET /status/:sessionId (the route matches only with a session id); the
\* handler writes the entry back with a new lastActivity
GetStatus(sessionId) ==
  /\ response' = StatusOf(sessionId)
  /\ UNCHANGED <<connectedWallets, walletSessions>>
  /\ UNCHANGED <<priceVars, apiKey, enableCache, updaters, stale, initialized, walletCache, req, routeReq>>

\* the controller after module load (walletConfig.js:239-240)
WalletInit ==
  /\ tokenPrices = NoPrices
  /\ livePrices = [s \in Symbols |-> Null]
  /\ call = [p \in Procs |-> Idle]
  /\ last = NoCall
  /\ memo = NoMemo
  /\ rep = NoRep
  /\ observe = "none"
  /\ apiKey = TRUE
  /\ enableCache = TRUE
  /\ initialized = FALSE
  /\ updaters = 0
  /\ stale = NoStale
  /\ connectedWallets = EmptyMap
  /\ walletSessions = EmptyMap
  /\ walletCache = [key \in CacheKeys |-> NoEntry]
  /\ req = [p \in Procs |-> ReqIdle]
  /\ response = NoResponse
  /\ routeReq = RouteIdle

WalletNext ==
  \/ \E address \in WalletAddresses, chainId \in WalletChainParams,
        walletType \in WalletTypes, sessionId \in SessionIds \cup {""},
        uuid \in Uuids :
       Connect(address, chainId, walletType, sessionId, uuid)
  \/ \E sessionId \in SessionIds \cup Uuids \cup {""},
        walletId \in {WalletId(a, c) : a \in {"", "0xw"}, c \in {0, 1}} :
       Disconnect(sessionId, walletId)
  \/ \E sessionId \in SessionIds \cup Uuids \cup {""},
        chainId \in WalletChainParams :
       SwitchChain(sessionId, chainId)
  \/ \E sessionId \in SessionIds \cup Uuids : GetStatus(sessionId)

SpecWallet == WalletInit /\ [][WalletNext]_vars

(***************************************************************************)
(* Claims about getTokenPrice (resolvePrice)                               *)
(***************************************************************************)
\* tier 2 applies to the observed call: value and balance positive, quotient usable
DerivedUsable(c) ==
  /\ c.mv.k = "num" /\ c.bal.k = "num"
  /\ Lt(Zero, c.mv) /\ Lt(Zero, c.bal)
  /\ Lt(Zero, Num(c.mv.n * c.bal.d, c.mv.d * c.bal.n))
  /\ c.mv.n * c.bal.d < MaxUsablePrice * c.mv.d * c.bal.n

\* tiers 1 and 2 yield nothing usable for the observed call
NoProviderPrice(c) == ~Usable(c.mp) /\ ~DerivedUsable(c)

\* C1: a provider-quoted price p with 0 < p < 1,000,000 is returned as it is,
\* whatever the price cache and the fallback table hold, and without any
\* external request.
C1_ProviderPriceWins ==
  (last.k = "call" /\ Usable(last.mp)) =>
     (last.result = last.mp /\ last.net = 0)

\* C1 witness: a usable quote was returned although the price table held
\* another price for the symbol and the derived price differed too.
C1_Witness ==
  /\ last.k = "call" /\ Usable(last.mp)
  /\ last.tableAt.k = "num" /\ last.tableAt # last.mp
  /\ DerivedUsable(last) /\ Mul(last.mp, last.bal) # last.mv
  /\ last.result = last.mp

\* C2: without a usable quote, and with value > 0, balance > 0 and a usable
\* quotient, the returned price is value / balance (result * balance = value),
\* whatever the caches hold.
C2_DerivedPrice ==
  (last.k = "call" /\ ~Usable(last.mp) /\ DerivedUsable(last)) =>
     (last.result.k = "num" /\ Mul(last.result, last.bal) = last.mv
      /\ last.net = 0)

\* C2 witness: a quote at the ceiling was passed over for 5 / 2 while the
\* price table held a price for the symbol.
C2_Witness ==
  /\ last.k = "call" /\ last.mp = Num(MaxUsablePrice, 1)
  /\ DerivedUsable(last) /\ last.tableAt.k = "num"
  /\ last.result = Num(5, 2)

\* C3: when tiers 1 and 2 yield nothing, the cached price-table entry of the
\* symbol is returned if there is one, otherwise the static fallback entry if
\* there is one, and a request is sent only when there is neither.
C3_CacheThenFallbackThenLookup ==
  (last.k = "call" /\ NoProviderPrice(last)) =>
     /\ last.tableAt # Null => (last.result = last.tableAt /\ last.net = 0)
     /\ (last.tableAt = Null /\ fallbackPrices[last.sym] # Null) =>
          (last.result = fallbackPrices[last.sym] /\ last.net = 0)
     /\ last.net > 0 =>
          (last.tableAt = Null /\ fallbackPrices[last.sym] = Null)

\* C3 witness: the cached table entry was returned where the static table
\* holds another price for the same symbol.
C3_Witness ==
  /\ last.k = "call" /\ NoProviderPrice(last)
  /\ last.tableAt # Null /\ fallbackPrices[last.sym] # Null
  /\ last.tableAt # fallbackPrices[last.sym]
  /\ last.result = last.tableAt

\* C4 (as claimed): every returned price is 0 or strictly between 0 and
\* 1,000,000.
C4_PriceInRange ==
  last.k = "call" => (last.result = Zero \/ Usable(last.result))

\* C6 (as claimed): with provider price 0 and provider value 0, a symbol of the
\* static fallback table resolves to exactly the static entry, in every state
\* of the price cache.
C6_StaticFallbackAlways ==
  (last.k = "call" /\ last.mp = Zero /\ last.mv = Zero
   /\ fallbackPrices[last.sym] # Null) =>
     last.result = fallbackPrices[last.sym]

\* C6 (amended): with provider price 0 and provider value 0, a symbol of the
\* static fallback table resolves to the static entry exactly when the price
\* cache holds no table entry for the symbol, and to that cached entry when it
\* does.
C6_StaticFallbackUnlessCached ==
  (last.k = "call" /\ last.mp = Zero /\ last.mv = Zero
   /\ fallbackPrices[last.sym] # Null) =>
     /\ last.tableAt = Null => last.result = fallbackPrices[last.sym]
     /\ last.tableAt # Null => last.result = last.tableAt
     /\ last.net = 0

\* C6 witness: the price table was cached without the symbol (BUSD is no key
\* of a fetched table) and the static entry was returned.
C6_Witness ==
  /\ last.k = "call" /\ last.mp = Zero /\ last.mv = Zero
  /\ tokenPrices.cached /\ last.tableAt = Null
  /\ fallbackPrices[last.sym] # Null
  /\ last.result = fallbackPrices[last.sym]

\* C7 (as claimed): two calls with the same arguments made in the same state of
\* the price cache return the same price, the on-demand lookup included.
C7_SameStateSamePrice ==
  rep.k = "pair" => rep.first = rep.second

\* C7 (amended): two calls with the same arguments made in the same state of
\* the price cache return the same price whenever that state answers the call
\* without an external request (tiers 1 to 4, or a cached on-demand price).
C7_SameStateSamePriceLocally ==
  (rep.k = "pair" /\ rep.local) => rep.first = rep.second

\* C7 witness: a repeated call for a symbol of neither table was answered
\* twice from the cached on-demand price.
C7_Witness ==
  /\ rep.k = "pair" /\ rep.local
  /\ rep.sym = "XYZ" /\ tokenPrices.cached
  /\ rep.first = livePrices["XYZ"] /\ rep.second = rep.first

(***************************************************************************)
(* Claims about the wallet request                                         *)
(***************************************************************************)
\* the records of a provider answer that the balance filter keeps
KeptRecords(raw) ==
  {i \in 1..Len(raw) : ~SkippedBalance(ParseBalance(raw[i]))}

\* every token priced by the final return of getTokenPrice has price 0
UnpricedAtZero(tokens) ==
  \A i \in 1..Len(tokens) :
     tokens[i].tier = 6 => (tokens[i].price = Zero /\ tokens[i].value = Zero)

\* C5: getTokenPrice always returns and never raises: where no tier yields a
\* price, a failed or timed-out lookup included, it returns 0, and the request
\* that awaits it ends with a snapshot holding every record the balance filter
\* keeps, not with a failure.
C5_ResolverNeverFailsRequest ==
  /\ [](\A p \in Procs :
          (req[p].pc = "done" /\ req[p].raw # <<>>) =>
             /\ req[p].out.k = "snapshot"
             /\ UnpricedAtZero(req[p].out.tokens)
             /\ Len(req[p].out.tokens) = Cardinality(KeptRecords(req[p].raw)))
  /\ \A p \in Procs :
       (req[p].pc = "pricing") ~> (req[p].pc = "done" /\ req[p].out.k = "snapshot")

\* C5 witness: a request is over with a snapshot in which a token of neither
\* price table, whose lookup gave nothing, stands at price 0.
C5_Witness ==
  \E p \in Procs :
     /\ req[p].pc = "done" /\ req[p].out.k = "snapshot"
     /\ \E i \in 1..Len(req[p].out.tokens) :
          /\ req[p].out.tokens[i].tier = 6
          /\ req[p].out.tokens[i].symbol = "XYZ"
          /\ req[p].out.tokens[i].price = Zero

(***************************************************************************)
(* Claims about the snapshot                                               *)
(***************************************************************************)
\* the sum of value over the tokens of a list
RECURSIVE SumValue(_)
SumValue(tokens) ==
  IF tokens = <<>> THEN Zero
  ELSE Add(Head(tokens).value, SumValue(Tail(tokens)))

\* C8 (as claimed): every token of a returned snapshot has value = balance *
\* price and balance >= 0.
C8_ValueIsBalanceTimesPrice ==
  response.k = "success" =>
     \A i \in 1..Len(response.tokens) :
        /\ response.tokens[i].value =
             Mul(response.tokens[i].balance, response.tokens[i].price)
        /\ ~Lt(response.tokens[i].balance, Zero)

\* C9 (as claimed): totalValue of a returned snapshot is the sum of value over
\* exactly the tokens of its list.
C9_TotalIsSumOfList ==
  response.k = "success" => response.totalValue = SumValue(response.tokens)

\* C10 (as claimed): the list of a returned snapshot is ordered by value
\* descending, and tokens of equal value by balance descending.
C10_OrderedByValueThenBalance ==
  \A p \in Procs :
     (req[p].pc = "done" /\ req[p].out.k = "snapshot") =>
        \A i \in 1..Len(req[p].out.tokens), j \in 1..Len(req[p].out.tokens) :
           i < j =>
              /\ ~Lt(req[p].out.tokens[i].value, req[p].out.tokens[j].value)
              /\ req[p].out.tokens[i].value = req[p].out.tokens[j].value =>
                   ~Lt(req[p].out.tokens[i].balance, req[p].out.tokens[j].balance)

(***************************************************************************)
(* Claims about the classification of records                              *)
(***************************************************************************)
\* the record is native as the classification rule reads: the flag, or the
\* sentinel address in any spelling of its letters, or no address
NativeInAnyCase(token) ==
  \/ token.native_token
  \/ ToLowerCase(token.token_address) = NativeSentinelLower
  \/ token.token_address = ""

\* C11 (as claimed): a record is classified native if and only if its flag is
\* set, or its address is the sentinel address in any mix of upper and lower
\* case, or it has no address.
C11_NativeIffFlagSentinelOrNoAddress ==
  \A p \in Procs :
     (req[p].pc = "done" /\ req[p].out.k = "processed"
      /\ req[p].out.version = "part_000") =>
        \A i \in 1..Len(req[p].out.passes) :
           req[p].out.passes[i] # Skip =>
              (req[p].out.passes[i].isNative <=> NativeInAnyCase(req[p].raw[i]))

\* C12 (as claimed): no token of a returned list comes from a record that is
\* not native, not preset, and has balance <= 0.
C12_NoEmptyStrangerInView ==
  \A p \in Procs :
     (req[p].pc = "done" /\ req[p].out.k = "processed") =>
        \A i \in 1..Len(req[p].out.tokens) :
           ~(/\ ~req[p].out.tokens[i].isNative
             /\ ~req[p].out.tokens[i].isPopular
             /\ ~Lt(Zero, req[p].out.tokens[i].balance))

\* C13 (as claimed): every preset record of the provider answer has its token
\* in the snapshot, whatever its balance.
C13_PresetAlwaysRendered ==
  \A p \in Procs :
     (req[p].pc = "done" /\ req[p].out.k = "snapshot") =>
        \A i \in 1..Len(req[p].raw) :
           (IsPopularToken(req[p].raw[i]) /\ ~IsNativeToken(req[p].raw[i])) =>
              \E j \in 1..Len(req[p].out.tokens) :
                 req[p].out.tokens[j].id = ToLowerCase(req[p].raw[i].token_address)

\* C14 (as claimed): no token of a returned list comes from a record flagged
\* possible_spam that is neither preset nor native, whatever its balance.
C14_SpamStrangerExcluded ==
  \A p \in Procs :
     (req[p].pc = "done" /\ req[p].out.k = "processed") =>
        \A i \in 1..Len(req[p].out.passes) :
           (/\ req[p].raw[i].possible_spam
            /\ ~NativeInAnyCase(req[p].raw[i])
            /\ ~IsPopularToken(req[p].raw[i])
            /\ Lt(Zero, ParseBalance(req[p].raw[i]))) =>
              req[p].out.passes[i] = Skip

\* C15 (as claimed): a record flagged possible_spam that is native or preset
\* (and has a positive balance, so that no other filter applies) has its token
\* in the returned list.
C15_SpamNeverRemovesTrusted ==
  \A p \in Procs :
     (req[p].pc = "done" /\ req[p].out.k = "processed") =>
        \A i \in 1..Len(req[p].out.passes) :
           (/\ req[p].raw[i].possible_spam
            /\ NativeInAnyCase(req[p].raw[i]) \/ IsPopularToken(req[p].raw[i])
            /\ Lt(Zero, ParseBalance(req[p].raw[i]))) =>
              req[p].out.passes[i] # Skip

C17_UnknownChainRaises ==
  \A p \in Procs :
     (req[p].pc = "done" /\ initialized
      /\ req[p].chain \notin SupportedChains) =>
        req[p].out.k = "thrown"

\* the request is answered with a validation error and nothing else happens:
\* no service call starts and no cache changes
Rejected ==
  /\ response'.k = "validation"
  /\ UNCHANGED <<routeReq, req, walletCache, tokenPrices, livePrices, initialized>>

\* the chain parameter is a number: it is given and all its characters are
\* digits
IsNumeric(chain) ==
  /\ chain.given
  /\ chain.chars # <<>>
  /\ \A i \in 1..Len(chain.chars) : chain.chars[i] \in Digits

\* the chain parameter begins with a digit
HasLeadingDigit(chain) ==
  chain.given /\ chain.chars # <<>> /\ chain.chars[1] \in Digits

ReturnsFromCache(p, entry) ==
  /\ req'[p].pc = "done"
  /\ req'[p].out = [k |-> "cached", tokens |-> entry.tokens]
  /\ UNCHANGED <<walletCache, tokenPrices, livePrices>>

\* a wallet_tokens entry is written only by a pass that returns the same
\* tokens for the same wallet and chain
WrittenByPass ==
  \A key \in CacheKeys :
    (walletCache'[key] # walletCache[key] /\ walletCache'[key].cached) =>
      \E p \in Procs :
        /\ req[p].pc \in {"moralis", "pricing"}
        /\ req'[p].pc = "done"
        /\ <<req'[p].wallet, req'[p].chain>> = key
        /\ req'[p].out = [k |-> "snapshot", tokens |-> walletCache'[key].tokens]

\* C19: a getWalletTokenBalances request that reaches the cache check for a
\* (wallet, chainId) with an unexpired entry returns exactly the tokens of the
\* entry, which the pass that wrote the entry returned, and goes to no
\* provider call
C19_CacheHitReturnsStored ==
  [][ /\ \A p \in Procs, w \in Wallets, c \in ChainIds :
           (initialized /\ walletCache[<<w, c>>].cached
              /\ GetWalletTokenBalances(p, w, c))
             => ReturnsFromCache(p, walletCache[<<w, c>>])
      /\ \A p \in Procs :
           (req[p].pc = "start"
              /\ walletCache[<<req[p].wallet, req[p].chain>>].cached
              /\ StartReturns(p, TRUE))
             => ReturnsFromCache(p, walletCache[<<req[p].wallet, req[p].chain>>])
      /\ WrittenByPass ]_vars

\* C19 (amended): the same when ENABLE_CACHE is not "false"
C19_CacheHitReturnsStoredWhenEnabled ==
  [][ /\ \A p \in Procs, w \in Wallets, c \in ChainIds :
           (enableCache /\ initialized /\ walletCache[<<w, c>>].cached
              /\ GetWalletTokenBalances(p, w, c))
             => ReturnsFromCache(p, walletCache[<<w, c>>])
      /\ \A p \in Procs :
           (enableCache /\ req[p].pc = "start"
              /\ walletCache[<<req[p].wallet, req[p].chain>>].cached
              /\ StartReturns(p, TRUE))
             => ReturnsFromCache(p, walletCache[<<req[p].wallet, req[p].chain>>])
      /\ WrittenByPass ]_vars

\* C19 witness: a request has returned a cached snapshot that holds a token
C19_Witness ==
  \E p \in Procs :
    /\ enableCache
    /\ req[p].pc = "done"
    /\ req[p].out.k = "cached"
    /\ req[p].out.tokens # <<>>
    /\ req[p].out.tokens = walletCache[<<req[p].wallet, req[p].chain>>].tokens

\* C20: when clearWalletCache(W) has run, called by POST /refresh/:address,
\* the result cache holds no entry for wallet W on any chain
C20_InvalidatedWalletHasNoEntry ==
  [][ \A w \in AllWallets :
        RefreshRoute(TRUE, w) =>
          \A key \in CacheKeys : key[1] = w => ~walletCache'[key].cached ]_vars

\* C20 witness: the cache of a wallet was cleared and holds no entry for it,
\* while the entries of another wallet on two chains are still there
C20_Witness ==
  /\ response = [k |-> "cleared"]
  /\ \E w \in AllWallets :
       /\ \A key \in CacheKeys : key[1] = w => ~walletCache[key].cached
       /\ \E v \in AllWallets \ {w} :
            \A c \in SupportedChains : walletCache[<<v, c>>].cached

(***************************************************************************)
(* The response of getWalletTokenBalancesPrice and the records read from   *)
(* it (part_000:1491-1504, 122-140 and services/moralis/index.js:129)      *)
(***************************************************************************)
\* a property of the response that holds an array, or that is not there
Some(records) == [some |-> TRUE, val |-> records]

None == [some |-> FALSE, val |-> <<>>]

\* a response: undefined or not, itself an array or not, with its result and
\* its raw, which is an array or has a result; `shape` names it (observer)
Envelope(shape, undefined, array, result, rawArray, rawResult) ==
  [shape |-> shape, undefined |-> undefined, array |-> array, result |-> result,
   rawArray |-> rawArray, rawResult |-> rawResult]

\* the responses that carry `records`: {result}, {raw: {result}}, {raw: [..]}
\* and [..]; and two that carry none: {} and undefined
Envelopes(records) ==
  { Envelope("result", FALSE, None, Some(records), None, None),
    Envelope("raw.result", FALSE, None, None, None, Some(records)),
    Envelope("raw", FALSE, None, None, Some(records), None),
    Envelope("array", FALSE, Some(records), None, None, None),
    Envelope("object", FALSE, None, None, None, None),
    Envelope("undefined", TRUE, None, None, None, None) }

\* what the parsing of a response left: the version, the shape and the records
\* sent (observers), and the records read
Parsed(version, e, sent, tokens) ==
  [k |-> "parsed", version |-> version, shape |-> e.shape, sent |-> sent,
   tokens |-> tokens]

\* the parsing threw a TypeError
ParseThrown(version, e, sent) ==
  [k |-> "parseThrown", version |-> version, shape |-> e.shape, sent |-> sent,
   tokens |-> <<>>]

\* part_000:1491-1504 (and 122-140): the first of result, raw.result, an
\* array raw and an array response, else []
AllTokens(e) ==
  IF e.result.some THEN e.result.val
  ELSE IF e.rawResult.some THEN e.rawResult.val
  ELSE IF e.rawArray.some THEN e.rawArray.val
  ELSE IF e.array.some THEN e.array.val
  ELSE <<>>

\* services/moralis/index.js:129: allTokensResponse.raw?.result || []
AllTokensIndex(e) == IF e.rawResult.some THEN e.rawResult.val ELSE <<>>

ParseResponse(p, e, sent) ==
  /\ req[p].pc = "idle"
  /\ req' = [req EXCEPT ![p] =
               [ReqIdle EXCEPT !.pc = "done",
                               !.out = Parsed("part_000", e, sent, AllTokens(e))]]
  /\ UNCHANGED <<priceVars, apiKey, enableCache, connectedWallets, walletSessions, updaters, stale, initialized, walletCache, response, routeReq>>

\* reading .raw of undefined throws
ParseResponseIndex(p, e, sent) ==
  /\ req[p].pc = "idle"
  /\ req' = [req EXCEPT ![p] =
               [ReqIdle EXCEPT !.pc = "done",
                               !.out = IF e.undefined
                                       THEN ParseThrown("index", e, sent)
                                       ELSE Parsed("index", e, sent,
                                                   AllTokensIndex(e))]]
  /\ UNCHANGED <<priceVars, apiKey, enableCache, connectedWallets, walletSessions, updaters, stale, initialized, walletCache, response, routeReq>>

EnvelopeNext ==
  \/ \E p \in Procs, sent \in ProviderAnswers :
       \E e \in Envelopes(sent) : ParseResponse(p, e, sent)
  \/ \E p \in Procs, sent \in ProviderAnswers :
       \E e \in Envelopes(sent) : ParseResponseIndex(p, e, sent)
  \/ \E p \in Procs : Returned(p)

SpecEnvelope == RouteInit /\ [][EnvelopeNext]_vars

(***************************************************************************)
(* Claims about the cache key, invalidation and expiry                     *)
(***************************************************************************)
\* C21: two requests for the same wallet and chain whose addresses differ only
\* in letter case share one cache entry, so that the second is answered from
\* the entry the first wrote, and clearWalletCache given either spelling
\* drops the entry
C21_KeyIsLowerCased ==
  [][ /\ \A p \in Procs, w \in Spellings, v \in Spellings, c \in ChainIds :
           (initialized /\ ToLowerCase(v) = ToLowerCase(w)
              /\ walletCache[<<v, c>>].cached
              /\ GetWalletTokenBalances(p, w, c))
             => (req'[p].pc = "done"
                   /\ req'[p].out =
                        [k |-> "cached", tokens |-> walletCache[<<v, c>>].tokens])
      /\ \A w \in Spellings :
           ClearWalletCache(w) =>
             \A key \in CacheKeys :
               ToLowerCase(key[1]) = ToLowerCase(w) => ~walletCache'[key].cached
    ]_vars

\* a request for wallet w on chain c that reaches the cache check
Asked(w, c) == [ReqIdle EXCEPT !.wallet = w, !.chain = c]

\* C22: when clearWalletCache(W) has run, a request for W on a configured
\* chain misses the cache and goes on to the refresh of the table and from
\* there to the provider call, and the pass that ends with a snapshot writes
\* it as the entry of its key; a second clearWalletCache(W) right after the
\* first would change neither cache
C22_InvalidateThenFresh ==
  [][ /\ \A w \in Wallets :
           ClearWalletCache(w) =>
             /\ \A c \in SupportedChains : AfterInitialize(Asked(w, c))'.pc = "prices"
             /\ ClearedEntries(w)' = walletCache'
             /\ tokenPrices' = NoPrices
             /\ livePrices' = [s \in Symbols |-> Null]
      /\ \A p \in Procs :
           (req[p].pc = "prices" /\ req'[p] # req[p]) => req'[p].pc = "moralis"
      /\ \A p \in Procs :
           (req[p].pc # "done" /\ req'[p].pc = "done"
              /\ req'[p].out.k = "snapshot")
             => walletCache'[<<req'[p].wallet, req'[p].chain>>] =
                  [cached |-> TRUE, tokens |-> req'[p].out.tokens] ]_vars

\* C22 witness: a request that missed the cache has returned a snapshot of
\* tokens, and the entry of its key holds that snapshot
C22_Witness ==
  \E p \in Procs :
    /\ req[p].pc = "done"
    /\ req[p].out.k = "snapshot"
    /\ req[p].out.tokens # <<>>
    /\ walletCache[<<req[p].wallet, req[p].chain>>].tokens = req[p].out.tokens

\* C23: when a wallet_tokens entry has outlived its TTL, a request for its
\* key misses the cache and goes on to the refresh of the table and the
\* provider call; a request is answered from the cache only with the tokens of
\* an entry that has not expired; and the pass that ends with a snapshot
\* replaces the entry of its key
C23_ExpiredNeverReturned ==
  [][ /\ \A key \in CacheKeys :
           ExpireWalletTokens(key) =>
             AfterInitialize(Asked(key[1], key[2]))'.pc = "prices"
      /\ \A p \in Procs :
           (req[p].pc # "done" /\ req'[p].pc = "done"
              /\ req'[p].out.k = "cached")
             => /\ walletCache[<<req'[p].wallet, req'[p].chain>>].cached
                /\ req'[p].out.tokens =
                     walletCache[<<req'[p].wallet, req'[p].chain>>].tokens
      /\ \A p \in Procs, key \in CacheKeys :
           (req[p].pc # "done" /\ req'[p].pc = "done"
              /\ req'[p].out.k = "snapshot"
              /\ key = <<req'[p].wallet, req'[p].chain>>)
             => (walletCache'[key].cached
                   /\ walletCache'[key].tokens = req'[p].out.tokens) ]_vars

\* C23 witness: a request is at the provider call for a key that has no entry
\* while the service is initialized and the price table is cached
C23_Witness ==
  \E p \in Procs :
    /\ req[p].pc = "moralis"
    /\ initialized
    /\ tokenPrices.cached
    /\ ~walletCache[<<req[p].wallet, req[p].chain>>].cached

(***************************************************************************)
(* Claims about the provider's answers and failures                        *)
(***************************************************************************)
\* C24: each of the four shapes that carry records is read to the records
\* sent, any other shape to the empty list, and the reading never throws
C24_ShapesReadAlike ==
  \A p \in Procs :
    (req[p].pc = "done" /\ req[p].out.k \in {"parsed", "parseThrown"}) =>
      /\ req[p].out.k = "parsed"
      /\ req[p].out.tokens =
           IF req[p].out.shape \in {"result", "raw.result", "raw", "array"}
           THEN req[p].out.sent
           ELSE <<>>

\* C25: a provider call that fails for a rate limit and one that fails for bad
\* credentials never leave getWalletTokenBalances with the same result: no
\* step is the return of both
C25_FailureClassesDiffer ==
  [][ \A p \in Procs :
        ~(MoralisReturns(p, "401", <<>>) /\ MoralisReturns(p, "429", <<>>)) ]_vars

\* C26: a request whose provider call answered ends with a snapshot that
\* holds every record of positive balance; a token for which no tier found a
\* price stands in it at price 0 and value 0, and every other token stands at
\* the price its tier resolved, which is not 0, and at balance times that price
C26_UnpricedTokenKeptAtZero ==
  \A p \in Procs :
    (req[p].pc = "done" /\ req[p].raw # <<>>) =>
      /\ req[p].out.k = "snapshot"
      /\ Len(req[p].out.tokens) = Cardinality(KeptRecords(req[p].raw))
      /\ \A i \in 1..Len(req[p].out.tokens) :
           LET t == req[p].out.tokens[i]
           IN /\ Lt(Zero, t.balance)
              /\ t.tier = 6 => (t.price = Zero /\ t.value = Zero)
              /\ t.tier # 6 => (Lt(Zero, t.price) /\ t.value = Mul(t.balance, t.price))

\* C26 witness: a snapshot holds a token at price 0 that no tier priced, next
\* to a token at the price the provider gave
C26_Witness ==
  \E p \in Procs :
    /\ req[p].pc = "done"
    /\ req[p].out.k = "snapshot"
    /\ \E i, j \in 1..Len(req[p].out.tokens) :
         /\ req[p].out.tokens[i].tier = 6
         /\ req[p].out.tokens[i].price = Zero
         /\ req[p].out.tokens[j].tier = 1
         /\ Lt(Zero, req[p].out.tokens[j].value)

(***************************************************************************)
(* Claims about the price table and its refresh                            *)
(***************************************************************************)
\* C27: whatever refreshes and getTokenPrice calls have interleaved, the
\* token_prices entry is missing or is the table one single refresh wrote: the
\* priceMap of one answer, or the copy of the fallback prices, in all its keys
C27_TableReplacedWhole ==
  tokenPrices.cached =>
    \/ tokenPrices.map = fallbackPrices
    \/ \E usd \in TableUsd : tokenPrices.map = PriceMap(usd)

\* C27 witness: the table is the priceMap of an answer, written over the copy
\* of the fallback prices that a request in flight has read
C27_Witness ==
  /\ tokenPrices.cached
  /\ tokenPrices.map = PriceMap(Num(3000, 1))
  /\ \E p \in Procs : /\ req[p].pc = "pricing"
                       /\ req[p].acc # <<>>
                       /\ req[p].acc[1].tier = 3
                       /\ req[p].acc[1].price = fallbackPrices["BUSD"]

\* C29: a cached token_prices table that a refresh wrote from an answer of the
\* price source is never replaced, in one step, by the copy of the hard-coded
\* fallback prices
C29_FetchedTableKeptOnFailure ==
  [][ (/\ tokenPrices.cached
       /\ \E usd \in TableUsd : tokenPrices.map = PriceMap(usd))
        => ~(tokenPrices'.cached /\ tokenPrices'.map = fallbackPrices) ]_vars

\* C30: no request waits for a refresh of the price table, and no step of a
\* request changes the token_prices entry
C30_RequestsLeaveTableAlone ==
  [][ \A p \in Procs :
        /\ req'[p].pc # "prices"
        /\ (req'[p] # req[p]) => (tokenPrices' = tokenPrices) ]_vars

\* the balance the record states: balance_formatted, or else the raw amount
\* over 10^decimals, 10^18 for a record without decimals
StatedBalance(token) ==
  IF token.balance_formatted # Null THEN token.balance_formatted
  ELSE IF token.balance = Null THEN Zero
  ELSE IF token.decimals = NoDecimals
  THEN DivPow10(token.balance, DefaultDecimals)
  ELSE DivPow10(token.balance, token.decimals)

\* C31: every token processTokenBalances of part_000 pushes has the balance its
\* record states: balance_formatted when given, else the raw amount over
\* 10^decimals with the record's decimals, 0 included, and over 10^18 only
\* for a record without decimals
C31_BalanceFromOwnDecimals ==
  \A p \in Procs :
    (req[p].pc = "done" /\ req[p].out.k = "processed"
       /\ req[p].out.version = "part_000") =>
      \A i \in 1..Len(req[p].out.passes) :
        req[p].out.passes[i] # Skip =>
          req[p].out.passes[i].balance = StatedBalance(req[p].raw[i])

(***************************************************************************)
(* Claims about the tokens of one snapshot                                 *)
(***************************************************************************)
\* C36: the tokens processTokenBalances returns for an answer of pairwise
\* different records have pairwise different ids; in particular at most one
\* of them is the native token
C36_IdsDistinct ==
  \A p \in Procs :
    (/\ req[p].pc = "done"
     /\ req[p].out.k = "processed"
     /\ \A i, j \in 1..Len(req[p].raw) :
           i # j => req[p].raw[i] # req[p].raw[j]) =>
      \A i, j \in 1..Len(req[p].out.tokens) :
        i # j => req[p].out.tokens[i].id # req[p].out.tokens[j].id

\* C37: in every token of a success answer of GET /wallet/:address, isPopular
\* is true exactly if the token is native or its lower-cased address is a
\* preset address of the chain; the hidden tokens have it false
C37_PopularIffNativeOrPreset ==
  response.k = "success" =>
    \A i \in 1..Len(response.tokens) :
      response.tokens[i].isPopular <=>
        (\/ response.tokens[i].isNative
         \/ response.tokens[i].id[1] \in PopularAddresses)

(***************************************************************************)
(* Claims about failed provider calls and the result cache                 *)
(***************************************************************************)
\* C34: a step in which a call to the balance provider of a request fails
\* writes nothing to the result cache
C34_FailedCallNotCached ==
  [][ \A p \in Procs :
        (\/ NativeReturns(p, "error", Zero)
         \/ \E tokenResults \in PresetAnswers :
              PresetReturns(p, "error", tokenResults))
          => walletCache' = walletCache ]_vars

\* C35: clearWalletCache(W) leaves the entries of every other wallet, the
\* token_prices entry and the live_price entries as they were
C35_InvalidationTouchesOnlyWallet ==
  [][ \A w \in Wallets :
        ClearWalletCache(w) =>
          /\ \A key \in CacheKeys :
                key[1] # w => walletCache'[key] = walletCache[key]
          /\ tokenPrices' = tokenPrices
          /\ livePrices' = livePrices ]_vars

(***************************************************************************)
(* Claims about concurrent requests                                        *)
(***************************************************************************)
\* C32: however the initialize() calls of concurrent callers interleave,
\* Moralis.start succeeds at most once and startPriceUpdater creates at most
\* one interval timer
C32_OneStartOneUpdater == updaters <= 1

\* C33: no request is answered from the cache with an entry that was written,
\* after clearWalletCache of its wallet, by a request that held its provider
\* response when the wallet was cleared
C33_NoAnswerFromBeforeInvalidation ==
  [][ \A p \in PairProcs :
        (/\ req[p].pc # "done"
         /\ req'[p].pc = "done"
         /\ req'[p].out.k = "cached")
          => <<req'[p].wallet, req'[p].chain>> \notin stale.keys ]_vars

\* request p ends its pass with a snapshot in this step
EndsWithSnapshot(p) ==
  req[p].pc # "done" /\ req'[p].pc = "done" /\ req'[p].out.k = "snapshot"

C38_SessionsPointAtTheirWallet ==
  \A sessionId \in DOMAIN walletSessions :
    /\ walletSessions[sessionId] \in DOMAIN connectedWallets
    /\ connectedWallets[walletSessions[sessionId]].sessionId = sessionId

\* C39: a disconnect or a switchChain of session S1 that succeeds leaves the
\* answer of getStatus(S2) as it was, for every other session S2
C39_OtherSessionsKeepTheirStatus ==
  [][ \A s1, s2 \in SessionIds \cup Uuids :
        (/\ s1 # s2
         /\ \/ Disconnect(s1, WalletId("", 0)) /\ response'.k = "disconnected"
            \/ \E chainId \in WalletChains :
                 SwitchChain(s1, chainId) /\ response'.k = "switched")
          => StatusOf(s2)' = StatusOf(s2) ]_vars

====
